---------------------------- MODULE Spec2Model ----------------------------
(***************************************************************************)
(* A model of the QueryNest backend core (src/QueryNest/backend/model.py): *)
(* the chunker, the section detector, section-scoped retrieval and the     *)
(* summarizer.                                                             *)
(*                                                                         *)
(* A Python str is a sequence of one-character strings, so that split,     *)
(* join, strip, lower, slicing and the regular expressions of the source   *)
(* are computed character by character.  The external collaborators        *)
(* (embedding, question answering, abstractive summarization, the NLTK     *)
(* sentence tokenizer) are nondeterministic: each call either raises or    *)
(* returns one of a small set of values.                                   *)
(***************************************************************************)
EXTENDS Integers, Sequences, FiniteSets, TLC

VARIABLES
    inlineFlagsOk,
    chunkPc, chunkText, chunkSize, chunkList,
    secPc, secText, sections,
    doc, rPc, rCall, rPrompt, rTarget, rCollab, rResult,
    sumPc, sumText, sumMaxLength, sumCollab, sumResult, sumCalls,
    valPc, valSummary, valSource, valThreshold, valCollab, valResult,
    vqPc, vqSummary, vqQuery, vqChunks, vqThreshold, vqCollab, vqResult,
    ksPc, ksText, ksNum, ksTokenizer, ksResult, ksSelected,
    documents, active_document_id, storeOp, storeArg, storeReturn, prevDocuments, prevActive,
    job_status, task, statusResponse, downloadResponse

\* the interpreter: whether re accepts a global inline flag (?i) that is not
\* at the start of the pattern (CPython up to 3.10 warns and applies it to
\* the whole pattern; from 3.11 re.compile raises re.error)
envVars == <<inlineFlagsOk>>

chunkVars == <<chunkPc, chunkText, chunkSize, chunkList>>

secVars == <<secPc, secText, sections>>

\* the stored document record, and one call of query_section or
\* query_document on it: its arguments, how the collaborators behaved
\* during the call, and what it did
retrVars == <<doc, rPc, rCall, rPrompt, rTarget, rCollab, rResult>>

\* one call of summarize_document: its arguments, how the collaborators
\* behaved during the call, and its outcome
sumVars == <<sumPc, sumText, sumMaxLength, sumCollab, sumResult, sumCalls>>

\* one call of validate_summary: its arguments, how the embedding model
\* behaved during the call, and its result
valVars == <<valPc, valSummary, valSource, valThreshold, valCollab, valResult>>

\* one call of validate_query_summary: its arguments, how the embedding
\* model behaved during the call, and its result
vqVars == <<vqPc, vqSummary, vqQuery, vqChunks, vqThreshold, vqCollab, vqResult>>

\* one call of extract_key_sentences: its arguments, how the tokenizer
\* behaved, its result, and the indices of the sentences it selected
ksVars == <<ksPc, ksText, ksNum, ksTokenizer, ksResult, ksSelected>>

\* the DocumentStore: the ids of its documents in insertion order, the
\* active id, and the last call made on it: its name, its argument, what it
\* returned, and the documents and the active id it found
storeVars == <<documents, active_document_id, storeOp, storeArg, storeReturn, prevDocuments, prevActive>>

\* the generation jobs: the job table, the locals of each background task,
\* and the last responses of check_status and download_file
jobVars == <<job_status, task, statusResponse, downloadResponse>>

vars == <<envVars, chunkVars, secVars, retrVars, sumVars, valVars, vqVars, ksVars, storeVars, jobVars>>

\* the variables of the functions that a specification does not call
ChunkIdle == chunkPc = "idle" /\ chunkText = <<>> /\ chunkSize = 1 /\ chunkList = <<>>

SecIdle == secPc = "idle" /\ secText = <<>> /\ sections = <<>>

RetrIdle ==
    /\ doc = <<>> /\ rPc = "idle" /\ rCall = "" /\ rPrompt = <<>>
    /\ rTarget = <<>> /\ rCollab = <<>> /\ rResult = <<>>

SumIdle ==
    /\ sumPc = "idle" /\ sumText = <<>> /\ sumMaxLength = 0
    /\ sumCollab = <<>> /\ sumResult = <<>> /\ sumCalls = <<>>

ValIdle ==
    /\ valPc = "idle" /\ valSummary = <<>> /\ valSource = <<>> /\ valThreshold = 0
    /\ valCollab = <<>> /\ valResult = <<>>

VqIdle ==
    vqPc = "idle" /\ vqSummary = <<>> /\ vqQuery = <<>> /\ vqChunks = <<>>
    /\ vqThreshold = 0 /\ vqCollab = <<>> /\ vqResult = <<>>

KsIdle ==
    ksPc = "idle" /\ ksText = <<>> /\ ksNum = 0 /\ ksTokenizer = ""
    /\ ksResult = <<>> /\ ksSelected = <<>>

StoreIdle ==
    documents = <<>> /\ active_document_id = <<"None">> /\ storeOp = "" /\ storeArg = <<>>
    /\ storeReturn = "" /\ prevDocuments = <<>> /\ prevActive = <<"None">>

JobIdle ==
    job_status = <<>> /\ task = <<>> /\ statusResponse = [code |-> 0] /\ downloadResponse = [code |-> 0]

(***************************************************************************)
(* Python str primitives                                                   *)
(***************************************************************************)
Min(a, b) == IF a < b THEN a ELSE b

Max(a, b) == IF a > b THEN a ELSE b

\* str.isspace() of one character, over the whitespace the model's texts use
IsSpace(c) == c \in {" ", "\n"}

\* s[i:j] with 0-based, already clamped, Python slice bounds
Slice(s, i, j) == SubSeq(s, i + 1, j)

\* str.split() with no separator: the maximal runs of non-whitespace
Split(s) ==
    LET RECURSIVE Go(_, _, _)
        Go(i, cur, acc) ==
            IF i > Len(s)
            THEN IF cur = <<>> THEN acc ELSE Append(acc, cur)
            ELSE IF IsSpace(s[i])
                 THEN Go(i + 1, <<>>, IF cur = <<>> THEN acc ELSE Append(acc, cur))
                 ELSE Go(i + 1, Append(cur, s[i]), acc)
    IN Go(1, <<>>, <<>>)

\* sep.join(parts)
RECURSIVE Join(_, _)
Join(sep, parts) ==
    IF parts = <<>> THEN <<>>
    ELSE IF Len(parts) = 1 THEN parts[1]
    ELSE parts[1] \o sep \o Join(sep, Tail(parts))

\* the first index from i on that holds no whitespace (Len(s) + 1 if none)
RECURSIVE FirstNonSpace(_, _)
FirstNonSpace(s, i) ==
    IF i > Len(s) \/ ~IsSpace(s[i]) THEN i ELSE FirstNonSpace(s, i + 1)

\* the last index up to j that holds no whitespace (0 if none)
RECURSIVE LastNonSpace(_, _)
LastNonSpace(s, j) ==
    IF j < 1 \/ ~IsSpace(s[j]) THEN j ELSE LastNonSpace(s, j - 1)

\* str.strip()
Strip(s) == SubSeq(s, FirstNonSpace(s, 1), LastNonSpace(s, Len(s)))

\* ''.join(parts)
RECURSIVE Flatten(_)
Flatten(ss) == IF ss = <<>> THEN <<>> ELSE ss[1] \o Flatten(Tail(ss))

\* sub in s
Contains(sub, s) ==
    \E i \in 0..(Len(s) - Len(sub)) : SubSeq(s, i + 1, i + Len(sub)) = sub

\* Python's None, where the source holds None in place of a str
None == <<"None">>

\* all sequences over S of length at most n
SeqsUpTo(S, n) == UNION {[1..k -> S] : k \in 0..n}

(***************************************************************************)
(* chunk_text                                                              *)
(***************************************************************************)
\* chunk_text with the slice bound off by one: each window drops its last word
chunk_text_short_window(text, chunk_size) ==
    IF text = <<>> THEN <<>>
    ELSE LET words == Split(text)
             starts == {i \in 0..(Len(words) - 1) : i % chunk_size = 0}
         IN [k \in 1..Cardinality(starts) |->
                Join(<<" ">>, Slice(words, (k - 1) * chunk_size,
                                    Min(k * chunk_size - 1, Len(words))))]

\* def chunk_text(text, chunk_size=500) -> list[str]
chunk_text(text, chunk_size) ==
    IF text = <<>> THEN <<>>
    ELSE LET words == Split(text)
             \* range(0, len(words), chunk_size)
             starts == {i \in 0..(Len(words) - 1) : i % chunk_size = 0}
         IN [k \in 1..Cardinality(starts) |->
                Join(<<" ">>, Slice(words, (k - 1) * chunk_size,
                                    Min(k * chunk_size, Len(words))))]

\* bounds of the chunker's inputs
MaxChunkTextLen == 5

MaxChunkSize == 3

ChunkAlphabet == {"a", "b", " ", "\n"}

ChunkInit ==
    /\ chunkPc = "call"
    /\ chunkText \in SeqsUpTo(ChunkAlphabet, MaxChunkTextLen)
    /\ chunkSize \in 1..MaxChunkSize
    /\ chunkList = <<>>
    /\ inlineFlagsOk = TRUE
    /\ SecIdle /\ RetrIdle /\ SumIdle /\ ValIdle /\ VqIdle /\ KsIdle /\ StoreIdle /\ JobIdle

ChunkText ==
    /\ chunkPc = "call"
    /\ chunkList' = chunk_text(chunkText, chunkSize)
    /\ chunkPc' = "done"
    /\ UNCHANGED <<chunkText, chunkSize, envVars, secVars, retrVars, sumVars, valVars, vqVars, ksVars, storeVars, jobVars>>

ChunkNext == ChunkText

SpecChunk == ChunkInit /\ [][ChunkNext]_vars

(***************************************************************************)
(* C8: chunk_text(T, w) returns exactly ceil(word_count(T)/w) chunks, each  *)
(* of at most w words and all but the last of exactly w words; the chunks' *)
(* words, concatenated in order, are T's whitespace-split word sequence;   *)
(* when T holds at most one window, joining the chunks with one space      *)
(* gives the whitespace-normalized T; empty or whitespace-only T gives the *)
(* empty list.                                                             *)
(***************************************************************************)
C8_ChunkWindows ==
    chunkPc = "done" =>
        LET words == Split(chunkText)
            n == Len(chunkList)
        IN /\ (n - 1) * chunkSize < Len(words)
           /\ Len(words) <= n * chunkSize
           /\ \A k \in 1..n : Len(Split(chunkList[k])) <= chunkSize
           /\ \A k \in 1..(n - 1) : Len(Split(chunkList[k])) = chunkSize
           /\ Flatten([k \in 1..n |-> Split(chunkList[k])]) = words
           /\ Len(words) <= chunkSize => Join(<<" ">>, chunkList) = Join(<<" ">>, words)
           /\ Strip(chunkText) = <<>> => chunkList = <<>>

C8_Witness ==
    /\ chunkPc = "done"
    /\ Len(chunkList) = 2
    /\ Len(Split(chunkList[1])) = 2
    /\ Len(Split(chunkList[2])) = 1
    /\ \E i \in 1..Len(chunkText) : chunkText[i] = "\n"

(***************************************************************************)
(* Regular expressions of the source, matched character by character.      *)
(* Offsets are Python's: 0-based, a match is [start, end).  Every pattern  *)
(* of the source is a concatenation of case-insensitive literals, greedy   *)
(* character-class runs and the group (\d+|[a-z]); no class can match the  *)
(* first character of what follows it, so the greedy match is the match    *)
(* the backtracking engine finds.                                          *)
(***************************************************************************)
LowerLetters == <<"a", "b", "c", "d", "e", "f", "g", "h", "i", "j", "k", "l", "m", "n", "o", "p", "q", "r", "s", "t", "u", "v", "w", "x", "y", "z">>

UpperLetters == <<"A", "B", "C", "D", "E", "F", "G", "H", "I", "J", "K", "L", "M", "N", "O", "P", "Q", "R", "S", "T", "U", "V", "W", "X", "Y", "Z">>

Digits == {"0", "1", "2", "3", "4", "5", "6", "7", "8", "9"}

WhiteSpace == {" ", "\n"}

\* the lower-case letter of each upper-case letter
UpperToLower ==
    [c \in {UpperLetters[k] : k \in 1..Len(UpperLetters)} |->
        LowerLetters[CHOOSE k \in 1..Len(UpperLetters) : UpperLetters[k] = c]]

LetterSet ==
    {LowerLetters[k] : k \in 1..Len(LowerLetters)} \cup DOMAIN UpperToLower

\* str.lower() of one character
LowerChar(c) == IF c \in DOMAIN UpperToLower THEN UpperToLower[c] ELSE c

\* str.lower()
Lower(s) == [k \in 1..Len(s) |-> LowerChar(s[k])]

\* [a-z] under (?i)
IsLetter(c) == c \in LetterSet

\* the character at 0-based offset i
At(s, i) == s[i + 1]

\* a match that failed
NoMatch == [end |-> -1, num |-> <<>>]

\* a literal under (?i), from offset i: the end offset, or -1
Lit(lit, s, i) ==
    IF /\ i >= 0
       /\ i + Len(lit) <= Len(s)
       /\ \A k \in 1..Len(lit) : LowerChar(s[i + k]) = lit[k]
    THEN i + Len(lit)
    ELSE -1

\* the end of the longest run of characters of C from offset i
RECURSIVE SkipWhile(_, _, _)
SkipWhile(C, s, i) ==
    IF i >= Len(s) \/ At(s, i) \notin C THEN i ELSE SkipWhile(C, s, i + 1)

\* [C]* from offset i
Star(C, s, i) == IF i < 0 THEN -1 ELSE SkipWhile(C, s, i)

\* [C]+ from offset i
Plus(C, s, i) ==
    IF i >= 0 /\ i < Len(s) /\ At(s, i) \in C THEN SkipWhile(C, s, i) ELSE -1

\* the group (\d+|[a-z]) from offset i
IdGroup(s, i) ==
    IF i < 0 \/ i >= Len(s) THEN NoMatch
    ELSE IF At(s, i) \in Digits
         THEN [end |-> SkipWhile(Digits, s, i),
               num |-> Slice(s, i, SkipWhile(Digits, s, i))]
         ELSE IF IsLetter(At(s, i))
              THEN [end |-> i + 1, num |-> <<At(s, i)>>]
              ELSE NoMatch

\* \d+ from offset i
DigitsGroup(s, i) ==
    IF i >= 0 /\ i < Len(s) /\ At(s, i) \in Digits
    THEN [end |-> SkipWhile(Digits, s, i), num |-> Slice(s, i, SkipWhile(Digits, s, i))]
    ELSE NoMatch

\* a match extended by what follows the group: e is the new end, or -1
Then(m, e) == IF m.end < 0 \/ e < 0 THEN NoMatch ELSE [end |-> e, num |-> m.num]

kwProblem == <<"p", "r", "o", "b", "l", "e", "m">>

kwStatement == <<"s", "t", "a", "t", "e", "m", "e", "n", "t">>

kwPs == <<"p", "s">>

kwSection == <<"s", "e", "c", "t", "i", "o", "n">>

kwChapter == <<"c", "h", "a", "p", "t", "e", "r">>

kwPart == <<"p", "a", "r", "t">>

\* section_patterns[k - 1] matched at offset i (re.match at i).  Every
\* pattern begins with a literal (problem, ps, section, chapter, part), so
\* an offset whose character is none of p, s, c starts no match.
SectionPattern(k, s, i) ==
    IF i >= Len(s) \/ LowerChar(At(s, i)) \notin {"p", "s", "c"} THEN NoMatch ELSE
    CASE k = 1 -> \* (?i)problem\s+statement\s+(\d+|[a-z])
            IdGroup(s, Plus(WhiteSpace, s,
                Lit(kwStatement, s, Plus(WhiteSpace, s, Lit(kwProblem, s, i)))))
      [] k = 2 -> \* (?i)problem\s+statement[\s\-]*(\d+|[a-z])
            IdGroup(s, Star(WhiteSpace \cup {"-"}, s,
                Lit(kwStatement, s, Plus(WhiteSpace, s, Lit(kwProblem, s, i)))))
      [] k = 3 -> \* (?i)problem\s*(\d+|[a-z])\s*[:\.]+
            LET m == IdGroup(s, Star(WhiteSpace, s, Lit(kwProblem, s, i)))
            IN Then(m, Plus({":", "."}, s, Star(WhiteSpace, s, m.end)))
      [] k = 4 -> \* (?i)ps\s*[\-\.\s]*(\d+|[a-z])
            IdGroup(s, Star(WhiteSpace \cup {"-", "."}, s,
                Star(WhiteSpace, s, Lit(kwPs, s, i))))
      [] k = 5 -> \* (?i)section\s+(\d+|[a-z])\s*[:\.]*
            LET m == IdGroup(s, Plus(WhiteSpace, s, Lit(kwSection, s, i)))
            IN Then(m, Star({":", "."}, s, Star(WhiteSpace, s, m.end)))
      [] k = 6 -> \* (?i)chapter\s+(\d+|[a-z])
            IdGroup(s, Plus(WhiteSpace, s, Lit(kwChapter, s, i)))
      [] k = 7 -> \* (?i)part\s+(\d+|[a-z])
            IdGroup(s, Plus(WhiteSpace, s, Lit(kwPart, s, i)))

NumSectionPatterns == 7

\* re.search(section_patterns[k - 1], s): the leftmost match, or NoMatch
SearchSectionPattern(k, s) ==
    LET hits == {i \in 0..Len(s) : SectionPattern(k, s, i).end >= 0}
    IN IF hits = {} THEN NoMatch
       ELSE SectionPattern(k, s, CHOOSE i \in hits : \A j \in hits : i <= j)

\* combined_pattern matched at offset i: the first alternative that matches
CombinedAt(s, i) ==
    LET ks == {k \in 1..NumSectionPatterns : SectionPattern(k, s, i).end >= 0}
    IN IF ks = {} THEN NoMatch
       ELSE SectionPattern(CHOOSE k \in ks : \A j \in ks : k <= j, s, i)

\* the alternative of combined_pattern that matches at offset i (0 if none)
CombinedAlt(s, i) ==
    LET ks == {k \in 1..NumSectionPatterns : SectionPattern(k, s, i).end >= 0}
    IN IF ks = {} THEN 0 ELSE CHOOSE k \in ks : \A j \in ks : k <= j

\* list(re.finditer(combined_pattern, text)), scanning from offset pos:
\* the leftmost match, then the scan resumes at its end
RECURSIVE FinditerFrom(_, _)
FinditerFrom(s, pos) ==
    IF pos >= Len(s) THEN <<>>
    ELSE LET e == CombinedAt(s, pos).end
         IN IF e >= 0
            THEN <<[start |-> pos, end |-> e]>> \o FinditerFrom(s, e)
            ELSE FinditerFrom(s, pos + 1)

Finditer(s) == FinditerFrom(s, 0)

(***************************************************************************)
(* detect_sections                                                         *)
(***************************************************************************)
strDocument == <<"D", "o", "c", "u", "m", "e", "n", "t">>

strProblemStatement == <<"p", "r", "o", "b", "l", "e", "m", " ", "s", "t", "a", "t", "e", "m", "e", "n", "t">>

strProblemStatementSp == <<"p", "r", "o", "b", "l", "e", "m", " ", "s", "t", "a", "t", "e", "m", "e", "n", "t", " ">>

\* section_num of a title: group(1) of the first pattern of section_patterns
\* that re.search finds in the title, None when none does
SectionNum(title) ==
    LET ks == {k \in 1..NumSectionPatterns : SearchSectionPattern(k, title).end >= 0}
    IN IF ks = {} THEN None
       ELSE SearchSectionPattern(CHOOSE k \in ks : \A j \in ks : k <= j, title).num

\* std_title of a title whose section_num is known
StdTitle(title, section_num) ==
    LET normalized_title == Lower(title)
    IN IF \/ Contains(strProblemStatement, normalized_title)
          \/ SubSeq(normalized_title, 1, Min(2, Len(normalized_title))) = kwPs
       THEN IF section_num # None /\ section_num # <<>>
            THEN strProblemStatementSp \o section_num
            ELSE title
       ELSE title

\* the section of match i of matches (1-based here, enumerate's i + 1)
SectionOfMatch(text, matches, i) ==
    LET title == Strip(Slice(text, matches[i].start, matches[i].end))
        section_num == SectionNum(title)
        end_idx == IF i < Len(matches) THEN matches[i + 1].start ELSE Len(text)
    IN [title |-> title,
        std_title |-> StdTitle(title, section_num),
        section_num |-> section_num,
        start_idx |-> matches[i].start,
        end_idx |-> end_idx,
        content |-> Strip(Slice(text, matches[i].end, end_idx))]

\* SectionsOfMatches with the content taken from the start of the heading
SectionsOfMatchesContentFromHeading(text, matches) ==
    IF matches = <<>>
    THEN <<[title |-> strDocument, start_idx |-> 0, end_idx |-> Len(text),
            content |-> text]>>
    ELSE [i \in 1..Len(matches) |->
             [SectionOfMatch(text, matches, i) EXCEPT
                 !.content = Strip(Slice(text, matches[i].start,
                     IF i < Len(matches) THEN matches[i + 1].start ELSE Len(text)))]]

\* SectionsOfMatches returning no section for a text without a heading
SectionsOfMatchesNoDefault(text, matches) ==
    [i \in 1..Len(matches) |-> SectionOfMatch(text, matches, i)]

\* lines 336-371 and 390: the sections of the matches of combined_pattern
\* (a match is never empty, so the paragraph fallback of lines 373-388,
\* taken when a text with matches gives no section, is never taken)
SectionsOfMatches(text, matches) ==
    IF matches = <<>>
    THEN <<[title |-> strDocument, start_idx |-> 0, end_idx |-> Len(text),
            content |-> text]>>
    ELSE [i \in 1..Len(matches) |-> SectionOfMatch(text, matches, i)]

\* def detect_sections(text), once combined_pattern has compiled
detect_sections(text) == SectionsOfMatches(text, Finditer(text))

\* the texts detect_sections is given: up to MaxBlocks blocks, each a heading
\* (or none) followed by a body
MaxBlocks == 2

Headings ==
    { <<>>,
      \* Problem Statement 1
      <<"P", "r", "o", "b", "l", "e", "m", " ", "S", "t", "a", "t", "e", "m", "e", "n", "t", " ", "1">>,
      \* Problem Statement 2
      <<"P", "r", "o", "b", "l", "e", "m", " ", "S", "t", "a", "t", "e", "m", "e", "n", "t", " ", "2">>,
      \* problem statement-A
      <<"p", "r", "o", "b", "l", "e", "m", " ", "s", "t", "a", "t", "e", "m", "e", "n", "t", "-", "A">>,
      \* Problem 2:
      <<"P", "r", "o", "b", "l", "e", "m", " ", "2", ":">>,
      \* Section 2
      <<"S", "e", "c", "t", "i", "o", "n", " ", "2">>,
      \* Chapter 3
      <<"C", "h", "a", "p", "t", "e", "r", " ", "3">> }

Bodies ==
    { <<>>,
      \* ': Do X. '
      <<":", " ", "D", "o", " ", "X", ".", " ">>,
      \* '\nproblem statement is steps 1 of Part b'
      <<"\n", "p", "r", "o", "b", "l", "e", "m", " ", "s", "t", "a", "t", "e", "m", "e", "n", "t", " ", "i", "s", " ", "s", "t", "e", "p", "s", " ", "1", " ", "o", "f", " ", "P", "a", "r", "t", " ", "b">> }

Blocks == {h \o b : h \in Headings, b \in Bodies}

\* a paragraph of more than 100 characters that holds no heading
LongParagraphLen == 101

LongParagraph == [k \in 1..LongParagraphLen |-> IF k % 5 = 0 THEN " " ELSE "x"]

\* two such paragraphs with a blank line between them
ParagraphsText == LongParagraph \o <<"\n", " ", "\n">> \o <<"y">> \o LongParagraph

SectionTexts ==
    {Flatten(bs) : bs \in SeqsUpTo(Blocks, MaxBlocks)} \cup {ParagraphsText}

SecInit ==
    /\ inlineFlagsOk \in BOOLEAN
    /\ secPc = "call"
    /\ secText \in SectionTexts
    /\ sections = <<>>
    /\ ChunkIdle /\ RetrIdle /\ SumIdle /\ ValIdle /\ VqIdle /\ KsIdle /\ StoreIdle /\ JobIdle

\* detect_sections returns its sections
DetectSections ==
    /\ secPc = "call"
    /\ inlineFlagsOk
    /\ sections' = detect_sections(secText)
    /\ secPc' = "returned"
    /\ UNCHANGED <<secText, envVars, chunkVars, retrVars, sumVars, valVars, vqVars, ksVars, storeVars, jobVars>>

\* re.finditer(combined_pattern, text) raises re.error: the (?i) of each
\* pattern stands inside a group of combined_pattern
DetectSectionsRaises ==
    /\ secPc = "call"
    /\ ~inlineFlagsOk
    /\ secPc' = "raised"
    /\ UNCHANGED <<secText, sections, envVars, chunkVars, retrVars, sumVars, valVars, vqVars, ksVars, storeVars, jobVars>>

SecNext == DetectSections \/ DetectSectionsRaises

SpecSections == SecInit /\ [][SecNext]_vars

(***************************************************************************)
(* Ingestion: extract_text and process_document_with_sections              *)
(***************************************************************************)
\* extract_text, of the text of the pages: re.sub(r'\s+', ' ', text).strip()
\* (every character of the model's texts is printable or whitespace)
extract_text(pages) == Join(<<" ">>, Split(pages))

\* chunk_size=500, the default of chunk_text
DefaultChunkSize == 500

\* the chunks and the metadata of sections k.. of the document, in order
RECURSIVE ChunksOfSections(_, _)
ChunksOfSections(secs, k) ==
    IF k > Len(secs) THEN <<>>
    ELSE LET section_chunks == chunk_text(secs[k].content, DefaultChunkSize)
         IN [j \in 1..Len(section_chunks) |->
                [chunk |-> section_chunks[j],
                 meta |-> [section |-> secs[k].title,
                           section_content |-> secs[k].content]]]
            \o ChunksOfSections(secs, k + 1)

\* lines 38-44: the record of the document, from its chunks with metadata
DocumentRecord(text, secs, all) ==
    [chunks |-> [j \in 1..Len(all) |-> all[j].chunk],
     metadata |-> [j \in 1..Len(all) |-> all[j].meta],
     sections |-> secs,
     full_text |-> text]

\* lines 22-34: the chunks of every section, in order
ChunkSections(text, secs) == DocumentRecord(text, secs, ChunksOfSections(secs, 1))

\* process_document_with_sections, of the extracted text (the embeddings
\* are the embedding model's: one per chunk, not modelled as vectors)
process_document_with_sections(text) == ChunkSections(text, detect_sections(text))

(***************************************************************************)
(* extract_problem_statement_num_from_query                                *)
(***************************************************************************)
\* patterns[k - 1] of extract_problem_statement_num_from_query at offset i
QueryPattern(k, s, i) ==
    IF i >= Len(s) \/ LowerChar(At(s, i)) # "p" THEN NoMatch ELSE
    CASE k = 1 -> \* (?i)problem\s+statement\s*[\-\.\s]*(\d+|[a-z])
            IdGroup(s, Star(WhiteSpace \cup {"-", "."}, s, Star(WhiteSpace, s,
                Lit(kwStatement, s, Plus(WhiteSpace, s, Lit(kwProblem, s, i))))))
      [] k = 2 -> \* (?i)problem\s*[\-\.\s]*(\d+|[a-z])
            IdGroup(s, Star(WhiteSpace \cup {"-", "."}, s, Star(WhiteSpace, s,
                Lit(kwProblem, s, i))))
      [] k = 3 -> \* (?i)ps\s*[\-\.\s]*(\d+|[a-z])
            IdGroup(s, Star(WhiteSpace \cup {"-", "."}, s, Star(WhiteSpace, s,
                Lit(kwPs, s, i))))

NumQueryPatterns == 3

\* re.search(patterns[k - 1], query)
SearchQueryPattern(k, s) ==
    LET hits == {i \in 0..Len(s) : QueryPattern(k, s, i).end >= 0}
    IN IF hits = {} THEN NoMatch
       ELSE QueryPattern(k, s, CHOOSE i \in hits : \A j \in hits : i <= j)

\* def extract_problem_statement_num_from_query(query)
extract_problem_statement_num_from_query(query) ==
    LET ks == {k \in 1..NumQueryPatterns : SearchQueryPattern(k, query).end >= 0}
    IN IF ks = {} THEN None
       ELSE SearchQueryPattern(CHOOSE k \in ks : \A j \in ks : k <= j, query).num

(***************************************************************************)
(* query_section                                                           *)
(***************************************************************************)
strPsNoSpace == <<"p", "s">>

strProblemSp == <<"p", "r", "o", "b", "l", "e", "m", " ">>

strStatementSp == <<"s", "t", "a", "t", "e", "m", "e", "n", "t", " ">>

strSectionSp == <<"s", "e", "c", "t", "i", "o", "n", " ">>

strNoContent == <<"N", "o", " ", "d", "o", "c", "u", "m", "e", "n", "t", " ", "c", "o", "n", "t", "e", "n", "t", " ", "t", "o", " ", "s", "e", "a", "r", "c", "h", ".">>

strCouldNotFind == <<"C", "o", "u", "l", "d", " ", "n", "o", "t", " ", "f", "i", "n", "d", " ", "p", "r", "o", "b", "l", "e", "m", " ", "s", "t", "a", "t", "e", "m", "e", "n", "t", " ">>

strInTheDocument == <<" ", "i", "n", " ", "t", "h", "e", " ", "d", "o", "c", "u", "m", "e", "n", "t", ".">>

strFrom == <<"F", "r", "o", "m", " ">>

strColonSp == <<":", " ">>

\* the alternatives of the pattern of cleaned_prompt at offset i:
\* problem\s+statement\s*[\-\.\s]*\d+ | ps\s*[\-\.\s]*\d+ , under (?i)
CleanPatternAt(s, i) ==
    IF i >= Len(s) \/ LowerChar(At(s, i)) # "p" THEN -1
    ELSE LET a == DigitsGroup(s, Star(WhiteSpace \cup {"-", "."}, s, Star(WhiteSpace, s,
                      Lit(kwStatement, s, Plus(WhiteSpace, s, Lit(kwProblem, s, i)))))).end
             b == DigitsGroup(s, Star(WhiteSpace \cup {"-", "."}, s, Star(WhiteSpace, s,
                      Lit(kwPs, s, i)))).end
         IN IF a >= 0 THEN a ELSE b

\* re.sub(pattern, '', s) from offset pos on: every match is removed
RECURSIVE CleanFrom(_, _)
CleanFrom(s, pos) ==
    IF pos >= Len(s) THEN <<>>
    ELSE LET e == CleanPatternAt(s, pos)
         IN IF e >= 0 THEN CleanFrom(s, e)
            ELSE <<At(s, pos)>> \o CleanFrom(s, pos + 1)

\* re.sub(...).strip() of line 468
CleanedPrompt(prompt) == Strip(CleanFrom(prompt, 0))

\* the exact-tier test of one chunk's metadata against target_problem
ExactMatch(meta, target_problem) ==
    LET section_title == Lower(meta.section)
        section_num == IF "section_num" \in DOMAIN meta THEN meta.section_num ELSE None
    IN IF section_num # None /\ section_num # <<>> /\ section_num = target_problem
       THEN TRUE
       ELSE \/ Contains(strProblemStatementSp \o target_problem, section_title)
            \/ Contains(strPsNoSpace \o target_problem, section_title)
            \/ Contains(strProblemSp \o target_problem, section_title)

\* the broad-tier test of one chunk's metadata against target_problem
BroadMatch(meta, target_problem) ==
    LET section_title == Lower(meta.section)
    IN \/ Contains(strStatementSp \o target_problem, section_title)
       \/ Contains(strSectionSp \o target_problem, section_title)
       \/ Contains(target_problem, section_title)

\* the indices (1-based) of seq that satisfy the test, in order
RECURSIVE IndicesFrom(_, _, _)
IndicesFrom(flags, k, acc) ==
    IF k > Len(flags) THEN acc
    ELSE IndicesFrom(flags, k + 1, IF flags[k] THEN Append(acc, k) ELSE acc)

\* section_indices with the broad pass run whether or not the exact pass
\* found chunks
SectionIndicesMerged(metadata, target_problem) ==
    IndicesFrom([i \in 1..Len(metadata) |->
                    \/ ExactMatch(metadata[i], target_problem)
                    \/ BroadMatch(metadata[i], target_problem)], 1, <<>>)

\* section_indices after the two filter passes of lines 424-456
SectionIndices(metadata, target_problem) ==
    LET exact == IndicesFrom([i \in 1..Len(metadata) |->
                                 ExactMatch(metadata[i], target_problem)], 1, <<>>)
    IN IF exact # <<>> THEN exact
       ELSE IndicesFrom([i \in 1..Len(metadata) |->
                            BroadMatch(metadata[i], target_problem)], 1, <<>>)

\* the result of a call that did not reach the similarity search
Early(outcome, value, target, indices) ==
    [outcome |-> outcome, error |-> IF outcome = "raised" THEN "re.error" ELSE "",
     value |-> value, target |-> target,
     section_indices |-> indices, scored |-> <<>>, question |-> <<>>,
     best |-> 0, encodeCalls |-> 0, qaCalls |-> 0]

\* no chunk matched either tier, and the whole chunk set is searched instead
CouldNotFindSearchesAll(chunks, target_problem) ==
    [Early("returned", <<>>, None, <<>>) EXCEPT
        !.scored = [i \in 1..Len(chunks) |-> i], !.best = 1,
        !.encodeCalls = 1, !.qaCalls = 1]

\* lines 458-462: no chunk matched either tier
CouldNotFind(chunks, target_problem) ==
    Early("returned", strCouldNotFind \o target_problem \o strInTheDocument,
          target_problem, <<>>)

\* a str that is neither None nor empty
Truthy(x) == x # None /\ x # <<>>

\* the answer returned as the QA pipeline gave it, target or not
QuerySectionAnswerBare(metadata, c, hasTarget, target, section_indices, scored, question) ==
    [outcome |-> IF c.encodeRaises \/ c.qaRaises THEN "raised" ELSE "returned",
     error |-> IF c.encodeRaises THEN "encode" ELSE IF c.qaRaises THEN "qa" ELSE "",
     value |-> IF c.encodeRaises \/ c.qaRaises THEN <<>> ELSE c.answer,
     target |-> target, section_indices |-> section_indices, scored |-> scored,
     question |-> question,
     best |-> IF c.encodeRaises THEN 0 ELSE scored[Min(c.best, Len(scored))],
     encodeCalls |-> 1, qaCalls |-> IF c.encodeRaises THEN 0 ELSE 1]

\* lines 476-493: embed the prompt, take the best-scoring chunk of those
\* scored, ask the QA pipeline, and label the answer when a target is in
\* effect.  c.best is np.argmax of the similarities: some index of scored.
QuerySectionAnswer(metadata, c, hasTarget, target, section_indices, scored, question) ==
    IF c.encodeRaises
    THEN [outcome |-> "raised", error |-> "encode", value |-> <<>>, target |-> target,
          section_indices |-> section_indices, scored |-> scored,
          question |-> question, best |-> 0, encodeCalls |-> 1, qaCalls |-> 0]
    ELSE IF c.qaRaises
    THEN [outcome |-> "raised", error |-> "qa", value |-> <<>>, target |-> target,
          section_indices |-> section_indices, scored |-> scored,
          question |-> question, best |-> scored[Min(c.best, Len(scored))],
          encodeCalls |-> 1, qaCalls |-> 1]
    ELSE [outcome |-> "returned", error |-> "",
          value |-> IF hasTarget
                    THEN strFrom \o metadata[scored[Min(c.best, Len(scored))]].section
                             \o strColonSp \o c.answer
                    ELSE c.answer,
          target |-> target,
          section_indices |-> section_indices, scored |-> scored,
          question |-> question, best |-> scored[Min(c.best, Len(scored))],
          encodeCalls |-> 1, qaCalls |-> 1]

\* lines 458-474: the chunks to score and the prompt to score them with
QuerySectionScoped(chunks, metadata, prompt, flagsOk, c, hasTarget, target_problem, section_indices) ==
    IF hasTarget /\ section_indices = <<>>
    THEN CouldNotFind(chunks, target_problem)
    ELSE IF hasTarget /\ ~flagsOk
    THEN \* line 468 raises re.error: its second (?i) is not at the start
         Early("raised", <<>>, target_problem, section_indices)
    ELSE IF hasTarget
    THEN QuerySectionAnswer(metadata, c, TRUE, target_problem, section_indices,
             section_indices,
             IF CleanedPrompt(prompt) # <<>> THEN CleanedPrompt(prompt) ELSE prompt)
    ELSE QuerySectionAnswer(metadata, c, FALSE, None, <<>>,
             [i \in 1..Len(chunks) |-> i], prompt)

\* lines 418-456: the effective target and the chunks of its section
QuerySectionTargeted(chunks, metadata, prompt, target_section, flagsOk, c, problem_num) ==
    IF Truthy(problem_num)
    THEN QuerySectionScoped(chunks, metadata, prompt, flagsOk, c, TRUE, problem_num,
             SectionIndices(metadata, problem_num))
    ELSE IF Truthy(target_section)
    THEN QuerySectionScoped(chunks, metadata, prompt, flagsOk, c, TRUE, target_section,
             SectionIndices(metadata, target_section))
    ELSE QuerySectionScoped(chunks, metadata, prompt, flagsOk, c, FALSE, None, <<>>)

\* query_section without the test of line 408
query_section_unguarded(chunks, metadata, prompt, target_section, flagsOk, c) ==
    QuerySectionTargeted(chunks, metadata, prompt, target_section, flagsOk, c,
        extract_problem_statement_num_from_query(prompt))

\* def query_section(chunks, embeddings, metadata, prompt, target_section).
\* c is what the collaborators do in this call: c.encodeRaises and
\* c.qaRaises, c.best the argmax of the similarities, c.answer the answer of
\* the QA pipeline.  The result holds the outcome (returned / raised), the
\* value returned, and what the call did: the effective target,
\* section_indices, the indices of the chunks that were scored, the prompt
\* that was embedded and asked, the index of the chunk given as context.
query_section(chunks, metadata, prompt, target_section, flagsOk, c) ==
    IF chunks = <<>> THEN Early("returned", strNoContent, None, <<>>)
    ELSE QuerySectionTargeted(chunks, metadata, prompt, target_section, flagsOk, c,
             extract_problem_statement_num_from_query(prompt))

\* def query_document(chunks, embeddings, prompt)
query_document(chunks, prompt, c) ==
    IF chunks = <<>> THEN Early("returned", strNoContent, None, <<>>)
    ELSE IF c.encodeRaises
    THEN [outcome |-> "raised", error |-> "encode", value |-> <<>>, target |-> None,
          section_indices |-> <<>>, scored |-> [i \in 1..Len(chunks) |-> i],
          question |-> prompt, best |-> 0, encodeCalls |-> 1, qaCalls |-> 0]
    ELSE IF c.qaRaises
    THEN [outcome |-> "raised", error |-> "qa", value |-> <<>>, target |-> None,
          section_indices |-> <<>>, scored |-> [i \in 1..Len(chunks) |-> i],
          question |-> prompt, best |-> Min(c.best, Len(chunks)),
          encodeCalls |-> 1, qaCalls |-> 1]
    ELSE [outcome |-> "returned", error |-> "", value |-> c.answer, target |-> None,
          section_indices |-> <<>>, scored |-> [i \in 1..Len(chunks) |-> i],
          question |-> prompt, best |-> Min(c.best, Len(chunks)),
          encodeCalls |-> 1, qaCalls |-> 1]

\* the documents of the store: the text of up to MaxDocBlocks blocks
MaxDocBlocks == 2

DocBlocks ==
    { \* Problem Statement 1: Do X.
      <<"P", "r", "o", "b", "l", "e", "m", " ", "S", "t", "a", "t", "e", "m", "e", "n", "t", " ", "1", ":", " ", "D", "o", " ", "X", ".", " ">>,
      \* Problem Statement 2: Do Y.
      <<"P", "r", "o", "b", "l", "e", "m", " ", "S", "t", "a", "t", "e", "m", "e", "n", "t", " ", "2", ":", " ", "D", "o", " ", "Y", ".", " ">>,
      \* Problem Statement 21: Do Z.
      <<"P", "r", "o", "b", "l", "e", "m", " ", "S", "t", "a", "t", "e", "m", "e", "n", "t", " ", "2", "1", ":", " ", "D", "o", " ", "Z", ".", " ">>,
      \* Section 2: Do X.
      <<"S", "e", "c", "t", "i", "o", "n", " ", "2", ":", " ", "D", "o", " ", "X", ".", " ">>,
      \* Intro.
      <<"I", "n", "t", "r", "o", ".", " ">> }

Documents ==
    {process_document_with_sections(extract_text(Flatten(bs))) :
        bs \in SeqsUpTo(DocBlocks, MaxDocBlocks)}

\* What is required in problem statement 2?
promptRequired == <<"W", "h", "a", "t", " ", "i", "s", " ", "r", "e", "q", "u", "i", "r", "e", "d", " ", "i", "n", " ", "p", "r", "o", "b", "l", "e", "m", " ", "s", "t", "a", "t", "e", "m", "e", "n", "t", " ", "2", "?">>

\* What is X?
promptPlain == <<"W", "h", "a", "t", " ", "i", "s", " ", "X", "?">>

\* problem statement 2: what is X
promptLeading == <<"p", "r", "o", "b", "l", "e", "m", " ", "s", "t", "a", "t", "e", "m", "e", "n", "t", " ", "2", ":", " ", "w", "h", "a", "t", " ", "i", "s", " ", "X">>

\* What is problem 2?
promptProblemN == <<"W", "h", "a", "t", " ", "i", "s", " ", "p", "r", "o", "b", "l", "e", "m", " ", "2", "?">>

Prompts == {promptRequired, promptPlain, promptLeading, promptProblemN}

\* Problem Statement 2, as the section list of the document shows it
targetOwnTitle == <<"P", "r", "o", "b", "l", "e", "m", " ", "S", "t", "a", "t", "e", "m", "e", "n", "t", " ", "2">>

\* problem statement 2
targetLowerTitle == <<"p", "r", "o", "b", "l", "e", "m", " ", "s", "t", "a", "t", "e", "m", "e", "n", "t", " ", "2">>

TargetSections == {None, <<"1">>, <<"2">>, targetOwnTitle, targetLowerTitle}

Answers == {<<"X">>}

\* what the embedding model and the QA pipeline may do in one call
Collaborators ==
    [encodeRaises : BOOLEAN, qaRaises : BOOLEAN, best : 1..MaxDocBlocks,
     answer : Answers]

\* a document is in the store only where detect_sections returned, which
\* is where the interpreter accepts its pattern
RetrInit ==
    /\ inlineFlagsOk = TRUE
    /\ doc \in Documents
    /\ rPc = "idle" /\ rCall = "" /\ rPrompt = <<>> /\ rTarget = <<>>
    /\ rCollab = <<>> /\ rResult = <<>>
    /\ ChunkIdle /\ SecIdle /\ SumIdle /\ ValIdle /\ VqIdle /\ KsIdle /\ StoreIdle /\ JobIdle

QuerySection ==
    /\ rPc = "idle"
    /\ \E prompt \in Prompts, target_section \in TargetSections, c \in Collaborators :
          /\ rPrompt' = prompt
          /\ rTarget' = target_section
          /\ rCollab' = c
          /\ rResult' = query_section(doc.chunks, doc.metadata, prompt, target_section,
                                      inlineFlagsOk, c)
    /\ rCall' = "query_section"
    /\ rPc' = "done"
    /\ UNCHANGED <<doc, envVars, chunkVars, secVars, sumVars, valVars, vqVars, ksVars, storeVars, jobVars>>

QueryDocument ==
    /\ rPc = "idle"
    /\ \E prompt \in Prompts, c \in Collaborators :
          /\ rPrompt' = prompt
          /\ rCollab' = c
          /\ rResult' = query_document(doc.chunks, prompt, c)
    /\ rTarget' = None
    /\ rCall' = "query_document"
    /\ rPc' = "done"
    /\ UNCHANGED <<doc, envVars, chunkVars, secVars, sumVars, valVars, vqVars, ksVars, storeVars, jobVars>>

RetrNext == QuerySection \/ QueryDocument

SpecRetrieve == RetrInit /\ [][RetrNext]_vars

(***************************************************************************)
(* The summarizer.  Its tiers are chosen by counts of words (100, 800,     *)
(* 3000), so a text it is given is a sequence of tokens: a token is a      *)
(* maximal run of whitespace characters or a maximal run of other          *)
(* characters, itself a sequence of characters, and the text is the        *)
(* concatenation of its tokens.  The operators over tokens are written     *)
(* without recursion over the length of the text.                          *)
(***************************************************************************)
SP == <<" ">>

\* the character U+2022
Bullet == "u2022"

SentenceEnd == {".", "!", "?"}

IsWsToken(t) == IsSpace(t[1])

IsWordToken(t) == ~IsSpace(t[1])

HasWord(text) == \E i \in DOMAIN text : IsWordToken(text[i])

\* the number of characters of tokens lo..hi, summed by halves
RECURSIVE CharLenOf(_, _, _)
CharLenOf(text, lo, hi) ==
    IF lo > hi THEN 0
    ELSE IF lo = hi THEN Len(text[lo])
    ELSE CharLenOf(text, lo, (lo + hi) \div 2)
             + CharLenOf(text, (lo + hi) \div 2 + 1, hi)

\* len(text), in characters
CharLen(text) == CharLenOf(text, 1, Len(text))

\* len(text) < n: a text of n tokens or more has n characters or more
ShorterThan(text, n) == Len(text) < n /\ CharLen(text) < n

\* a + b, the run that ends a joined to the run that starts b when they
\* are of one kind
Concat(a, b) ==
    IF a = <<>> THEN b
    ELSE IF b = <<>> THEN a
    ELSE IF IsWsToken(a[Len(a)]) = IsWsToken(b[1])
         THEN SubSeq(a, 1, Len(a) - 1) \o <<a[Len(a)] \o b[1]>> \o Tail(b)
         ELSE a \o b

\* text.strip()
TokStrip(text) ==
    SubSeq(text,
           IF text # <<>> /\ IsWsToken(text[1]) THEN 2 ELSE 1,
           IF text # <<>> /\ IsWsToken(text[Len(text)]) THEN Len(text) - 1 ELSE Len(text))

\* text.split()
Words(text) == SelectSeq(text, IsWordToken)

\* ' '.join(words), of words that hold no whitespace
JoinWords(words) ==
    [i \in 1..(2 * Len(words) - 1) |-> IF i % 2 = 1 THEN words[(i + 1) \div 2] ELSE SP]

\* ' '.join(parts), of texts
RECURSIVE JoinTexts(_)
JoinTexts(parts) ==
    IF parts = <<>> THEN <<>>
    ELSE IF Len(parts) = 1 THEN parts[1]
    ELSE Concat(Concat(parts[1], <<SP>>), JoinTexts(Tail(parts)))

\* text[:n], n counted in characters
CharPrefix(text, n) ==
    SelectSeq([i \in 1..Min(Len(text), n) |->
                  SubSeq(text[i], 1,
                         Min(Len(text[i]),
                             Max(0, n - CharLen(SubSeq(text, 1, i - 1)))))],
              LAMBDA t : t # <<>>)

\* line 81: re.sub(r'\s+', ' ', text).strip()
CollapseWhitespace(text) ==
    TokStrip([i \in DOMAIN text |-> IF IsWsToken(text[i]) THEN SP ELSE text[i]])

\* line 83: text.replace('•', '*')
ReplaceBullets(text) ==
    [i \in DOMAIN text |->
        [j \in DOMAIN text[i] |-> IF text[i][j] = Bullet THEN "*" ELSE text[i][j]]]

\* text.endswith(('.', '!', '?')), of a text that does not end in whitespace
EndsWithSentenceEnd(text) ==
    text # <<>> /\ text[Len(text)][Len(text[Len(text)])] \in SentenceEnd

\* lines 85-86
AppendFullStop(text) ==
    IF text # <<>> /\ ~EndsWithSentenceEnd(text)
    THEN [text EXCEPT ![Len(text)] = Append(@, ".")]
    ELSE text

clean_text_for_summarization(text) ==
    AppendFullStop(ReplaceBullets(CollapseWhitespace(text)))

\* the positions at which r'(?<=[.!?])\s+' matches: the whitespace runs that
\* follow a '.', '!' or '?'
SplitPoints(text) ==
    SelectSeq([i \in 1..Len(text) |-> i],
              LAMBDA i : /\ i > 1
                         /\ IsWsToken(text[i])
                         /\ EndsWithSentenceEnd(<<text[i - 1]>>))

\* re.split at those positions
SplitAt(text, cuts) ==
    [k \in 1..(Len(cuts) + 1) |->
        SubSeq(text, IF k = 1 THEN 1 ELSE cuts[k - 1] + 1,
                     IF k = Len(cuts) + 1 THEN Len(text) ELSE cuts[k] - 1)]

simple_split_sentences(text) == SelectSeq(SplitAt(text, SplitPoints(text)), HasWord)

\* the value a call returns, or the exception it raises
Returned(value) == [outcome |-> "returned", value |-> value]

Raised == [outcome |-> "raised", value |-> <<>>]

\* try: result / except: handler, where handler is evaluated only if the
\* body raised
NoTry(result, handler) == result

Try(result, handler) == IF result.outcome = "raised" THEN handler ELSE result

\* prefix + result
Prefixed(prefix, result) ==
    IF result.outcome = "raised" THEN result
    ELSE Returned(Concat(prefix, result.value))

strTooShort ==
    <<<<"D", "o", "c", "u", "m", "e", "n", "t">>, <<" ">>, <<"i", "s">>,
      <<" ">>, <<"t", "o", "o">>, <<" ">>, <<"s", "h", "o", "r", "t">>,
      <<" ">>, <<"o", "r">>, <<" ">>, <<"e", "m", "p", "t", "y">>, <<" ">>,
      <<"t", "o">>, <<" ">>,
      <<"s", "u", "m", "m", "a", "r", "i", "z", "e", ".">>>>

strKeyPoints == <<<<"K", "e", "y">>, <<" ">>, <<"p", "o", "i", "n", "t", "s", ":">>, <<" ">>>>

strDocumentOverview ==
    <<<<"D", "o", "c", "u", "m", "e", "n", "t">>, <<" ">>,
      <<"o", "v", "e", "r", "v", "i", "e", "w", ":">>, <<" ">>>>

strDocumentPreview ==
    <<<<"D", "o", "c", "u", "m", "e", "n", "t">>, <<" ">>,
      <<"p", "r", "e", "v", "i", "e", "w", ":">>, <<" ">>>>

strEllipsis == <<<<".", ".", ".">>>>

\* what the abstractive summarizer writes when it returns a summary
SummaryText == <<<<"A">>, <<" ">>, <<"s", "u", "m", "m", "a", "r", "y", ".">>>>

StripEach(sentences) == [k \in DOMAIN sentences |-> TokStrip(sentences[k])]

\* nltk.sent_tokenize(text), when NLTK is importable and does not raise: it
\* splits after sentence-ending punctuation and strips each sentence, or it
\* finds no sentence boundary at all
sent_tokenize(text, tokenizer) ==
    IF tokenizer = "whole"
    THEN (IF HasWord(text) THEN <<TokStrip(text)>> ELSE <<>>)
    ELSE StripEach(simple_split_sentences(text))

\* lines 95-104
KeySentencesSource(text, tokenizer) ==
    IF tokenizer \in {"import_fails", "tokenize_fails"}
    THEN simple_split_sentences(text)
    ELSE sent_tokenize(text, tokenizer)

\* lines 106-116
SelectKeySentences(text, sentences, num_sentences) ==
    IF Len(sentences) <= num_sentences
    THEN (IF sentences # <<>> THEN JoinTexts(sentences)
          ELSE Concat(CharPrefix(text, 1000), strEllipsis))
    ELSE JoinTexts(
             SubSeq(sentences, 1, Min(Len(sentences), Max(1, num_sentences \div 2)))
             \o SubSeq(sentences, Len(sentences) \div 2 + 1, Len(sentences) \div 2 + 1)
             \o SubSeq(sentences,
                       Max(1, Len(sentences) - (num_sentences \div 2 + 1) + 1),
                       Len(sentences)))

extract_key_sentences(text, num_sentences, tokenizer) ==
    Returned(SelectKeySentences(text, KeySentencesSource(text, tokenizer), num_sentences))

\* summarizer(input, max_length=..., min_length=30, do_sample=False): it
\* raises, or returns an empty list, or a list of one summary
summarizer(input, max_length, outcome) ==
    IF outcome = "raises" THEN Raised
    ELSE IF outcome = "empty" THEN Returned(<<>>)
    ELSE Returned(<<[summary_text |-> SummaryText]>>)

\* summary[0]['summary_text'] if summary else ""
SummaryTextOrEmpty(summary) ==
    IF summary.outcome = "raised" THEN summary
    ELSE Returned(IF summary.value # <<>> THEN summary.value[1].summary_text ELSE <<>>)

\* summary[0]['summary_text'], an IndexError if the list is empty
FirstSummaryText(summary) ==
    IF summary.outcome = "raised" THEN summary
    ELSE IF summary.value = <<>> THEN Raised
    ELSE Returned(summary.value[1].summary_text)

\* lines 138-146 (and 149-157, 160-168): the text one window contributes
WindowText(window, outcome, tokenizer) ==
    Try(SummaryTextOrEmpty(summarizer(clean_text_for_summarization(window), 100, outcome)),
        extract_key_sentences(window, 2, tokenizer))

\* lines 171-174
SectionalResult(result, text, tokenizer) ==
    IF result # <<>> THEN Returned(result)
    ELSE Prefixed(strKeyPoints, extract_key_sentences(text, 5, tokenizer))

\* line 170: f"{begin_text} {middle_text} {end_text}".strip()
SectionalJoin(begin_text, middle_text, end_text, text, tokenizer) ==
    IF "raised" \in {begin_text.outcome, middle_text.outcome, end_text.outcome}
    THEN Raised
    ELSE SectionalResult(
             TokStrip(Concat(Concat(Concat(Concat(begin_text.value, <<SP>>),
                                           middle_text.value), <<SP>>),
                             end_text.value)),
             text, tokenizer)

\* lines 131-134: words[:800], words[middle_start:middle_start + 800] and
\* words[-800:], each joined with spaces
BeginWindow(words) == JoinWords(SubSeq(words, 1, Min(Len(words), 800)))

MiddleWindow(words) ==
    JoinWords(SubSeq(words, Max(0, Len(words) \div 2 - 400) + 1,
                     Min(Len(words), Max(0, Len(words) \div 2 - 400) + 800)))

EndWindow(words) == JoinWords(SubSeq(words, Max(1, Len(words) - 800 + 1), Len(words)))

\* lines 130-178: more than 3000 words
SummarizeSectional(text, words, c) ==
    Try(SectionalJoin(WindowText(BeginWindow(words), c.s1, c.tokenizer),
                      WindowText(MiddleWindow(words), c.s2, c.tokenizer),
                      WindowText(EndWindow(words), c.s3, c.tokenizer),
                      text, c.tokenizer),
        Prefixed(strDocumentOverview, extract_key_sentences(text, 5, c.tokenizer)))

\* the selection taken from the head of the text only
SelectedTextHeadOnly(words) == JoinWords(SubSeq(words, 1, Min(Len(words), 800)))

\* line 181
SelectedText(words) ==
    Concat(Concat(JoinWords(SubSeq(words, 1, Min(Len(words), 400))), <<SP>>),
           JoinWords(SubSeq(words, Max(1, Len(words) - 400 + 1), Len(words))))

\* lines 180-193: more than 800 words
SummarizeMedium(text, words, c) ==
    Try(FirstSummaryText(summarizer(clean_text_for_summarization(SelectedText(words)),
                                    150, c.s1)),
        Prefixed(strKeyPoints, extract_key_sentences(text, 5, c.tokenizer)))

\* lines 203-206
DirectResult(summary, text, tokenizer) ==
    IF summary.outcome = "raised" THEN summary
    ELSE IF summary.value # <<>> THEN Returned(summary.value[1].summary_text)
    ELSE extract_key_sentences(text, 3, tokenizer)

\* lines 195-209: 100 to 800 words
SummarizeDirect(text, max_length, c) ==
    Try(DirectResult(summarizer(text, Min(max_length, 150), c.s1), text, c.tokenizer),
        extract_key_sentences(text, 3, c.tokenizer))

\* lines 124-209
SummarizeWords(text, words, max_length, c) ==
    IF Len(words) < 100 THEN Returned(text)
    ELSE IF Len(words) > 3000 THEN SummarizeSectional(text, words, c)
    ELSE IF Len(words) > 800 THEN SummarizeMedium(text, words, c)
    ELSE SummarizeDirect(text, max_length, c)

\* lines 122-217, text the cleaned text of line 123
SummarizeCleaned(text, max_length, c) ==
    Try(SummarizeWords(text, Words(text), max_length, c),
        Try(Prefixed(strKeyPoints, extract_key_sentences(text, 5, c.tokenizer)),
            Returned(Concat(Concat(strDocumentPreview, CharPrefix(text, 500)),
                            strEllipsis))))

summarize_document(text, max_length, c) ==
    IF text = <<>> \/ ShorterThan(TokStrip(text), 50)
    THEN Returned(strTooShort)
    ELSE SummarizeCleaned(clean_text_for_summarization(text), max_length, c)

\* one call of the summarizer: its input and its max_length
Call(input, max_length) == [input |-> input, max_length |-> max_length]

\* the calls of lines 138, 149 and 160: each is made, whatever the others do
SectionalCalls(words) ==
    <<Call(clean_text_for_summarization(BeginWindow(words)), 100),
      Call(clean_text_for_summarization(MiddleWindow(words)), 100),
      Call(clean_text_for_summarization(EndWindow(words)), 100)>>

\* the call of line 184
MediumCalls(words) == <<Call(clean_text_for_summarization(SelectedText(words)), 150)>>

\* the call of line 197
DirectCalls(text, max_length) == <<Call(text, Min(max_length, 150))>>

\* lines 124-209: the calls of each tier
CallsOfWords(text, words, max_length) ==
    IF Len(words) < 100 THEN <<>>
    ELSE IF Len(words) > 3000 THEN SectionalCalls(words)
    ELSE IF Len(words) > 800 THEN MediumCalls(words)
    ELSE DirectCalls(text, max_length)

\* text the cleaned text of line 123
CallsOfCleaned(text, max_length) == CallsOfWords(text, Words(text), max_length)

\* the calls summarize_document makes to the summarizer, in order
SummarizerCalls(text, max_length) ==
    IF text = <<>> \/ ShorterThan(TokStrip(text), 50) THEN <<>>
    ELSE CallsOfCleaned(clean_text_for_summarization(text), max_length)

(***************************************************************************)
(* Calls of summarize_document.  The texts are n words, every              *)
(* SentenceWords-th of them ending a sentence, separated by single spaces  *)
(* or by blank lines, with or without whitespace around them; the word     *)
(* counts lie on both sides of each threshold of the function.             *)
(***************************************************************************)
SentenceWords == 10

wordPlain == <<"w", "o", "r", "d">>

wordEnd == <<"e", "n", "d", ".">>

wordBullet == <<Bullet, "x">>

BlankLine == <<"\n", "\n">>

WordAt(k, style) ==
    IF k % SentenceWords = 0 THEN wordEnd
    ELSE IF style = "ragged" /\ k % SentenceWords = 1 THEN wordBullet
    ELSE wordPlain

SeparatorAt(k, style) ==
    IF style = "ragged" /\ k % SentenceWords = 0 THEN BlankLine ELSE SP

\* n words; the ragged style has bullets, blank lines and whitespace around
MakeText(n, style) ==
    IF n = 0 THEN (IF style = "ragged" THEN <<BlankLine>> ELSE <<>>)
    ELSE (IF style = "ragged" THEN <<SP>> ELSE <<>>)
         \o [i \in 1..(2 * n - 1) |->
                IF i % 2 = 1 THEN WordAt((i + 1) \div 2, style)
                ELSE SeparatorAt(i \div 2, style)]
         \o (IF style = "ragged" THEN <<BlankLine>> ELSE <<>>)

WordCounts == {0, 9, 10, 40, 99, 100, 120, 800, 801, 3000, 3001}

RaggedWordCounts == {0, 10, 40, 120, 801, 3001}

SumTexts ==
    {MakeText(n, "plain") : n \in WordCounts}
        \cup {MakeText(n, "ragged") : n \in RaggedWordCounts}

MaxLengths == {1024, 100}

SummarizerOutcomes == {"raises", "empty", "summary"}

Tokenizers == {"import_fails", "tokenize_fails", "splits", "whole"}

SumCollaborators ==
    [s1 : SummarizerOutcomes, s2 : SummarizerOutcomes, s3 : SummarizerOutcomes,
     tokenizer : Tokenizers]

SumInit ==
    /\ inlineFlagsOk = TRUE
    /\ sumPc = "idle"
    /\ sumText \in SumTexts
    /\ sumMaxLength \in MaxLengths
    /\ sumCollab = <<>> /\ sumResult = <<>> /\ sumCalls = <<>>
    /\ ChunkIdle /\ SecIdle /\ RetrIdle /\ ValIdle /\ VqIdle /\ KsIdle /\ StoreIdle /\ JobIdle

SummarizeDocument ==
    /\ sumPc = "idle"
    /\ \E c \in SumCollaborators :
          /\ sumCollab' = c
          /\ sumResult' = summarize_document(sumText, sumMaxLength, c)
    /\ sumCalls' = SummarizerCalls(sumText, sumMaxLength)
    /\ sumPc' = "done"
    /\ UNCHANGED <<sumText, sumMaxLength, envVars, chunkVars, secVars, retrVars, valVars, vqVars, ksVars, storeVars, jobVars>>

SumNext == SummarizeDocument

SpecSummarize == SumInit /\ [][SumNext]_vars

(***************************************************************************)
(* The validator.  Its texts are sequences of tokens, as the summarizer's  *)
(* are.  A similarity is a number of hundredths (65 for 0.65); the mean of *)
(* the similarities is kept as their sum and their count, and              *)
(* fact_validity as its numerator and its denominator.                     *)
(***************************************************************************)
\* chunk_text(text, chunk_size) of a text of tokens: lines 61-62
ChunkWordsOf(words, chunk_size) ==
    [k \in 1..((Len(words) + chunk_size - 1) \div chunk_size) |->
        JoinWords(SubSeq(words, (k - 1) * chunk_size + 1,
                         Min(k * chunk_size, Len(words))))]

ChunkWords(text, chunk_size) ==
    IF text = <<>> THEN <<>> ELSE ChunkWordsOf(Words(text), chunk_size)

\* np.dot(chunk_embeddings, embedding.T).flatten(): one similarity for each
\* of the n chunks, top for the chunk the embedding model finds nearest and
\* low for the others
Similarities(n, top, low, best) ==
    [i \in 1..n |-> IF i = Min(best, n) THEN top ELSE low]

\* np.max(similarities)
MaxOf(similarities) ==
    CHOOSE m \in {similarities[i] : i \in DOMAIN similarities} :
        \A i \in DOMAIN similarities : similarities[i] <= m

RECURSIVE SumOf(_)
SumOf(similarities) ==
    IF similarities = <<>> THEN 0
    ELSE similarities[1] + SumOf(Tail(similarities))

\* np.mean(similarities)
MeanOf(similarities) == [sum |-> SumOf(similarities), count |-> Len(similarities)]

\* lines 241-243: the sentences of the summary that are scored
IsScored(sentence) == ~(Len(Words(sentence)) < 5)

\* lines 245-247: the fact score of each scored sentence, sent[j] the
\* similarity of the j-th of them to its nearest chunk
FactScores(scored, n, c) ==
    [j \in DOMAIN scored |->
        MaxOf(Similarities(n, c.sent[Min(j, Len(c.sent))], c.low, c.best))]

\* line 249
FactValidity(fact_scores, threshold) ==
    [num |-> Cardinality({j \in DOMAIN fact_scores : fact_scores[j] > threshold}),
     den |-> Max(1, Len(fact_scores))]

\* lines 220-225
MissingResult ==
    [valid |-> FALSE, score |-> 0, message |-> "Missing summary or source content"]

\* lines 271-277, the message without the text of the exception
ErrorResult ==
    [valid |-> FALSE, score |-> 0, message |-> "Error validating summary: "]

\* lines 251-269
ValidationResult(max_similarity, avg_similarity, fact_validity, threshold) ==
    [valid |-> max_similarity >= threshold,
     score |-> max_similarity,
     avg_score |-> avg_similarity,
     fact_validity |-> fact_validity,
     message |-> IF max_similarity >= threshold
                 THEN "Summary is valid and supported by the document."
                 ELSE "Summary may contain inaccuracies or unsupported information.",
     confidence |-> IF max_similarity > 80 THEN "High"
                    ELSE IF max_similarity > 70 THEN "Medium"
                    ELSE "Low"]

\* lines 238-269: a model.encode([sentence]) that raises does so at the first
\* scored sentence
ValidateScored(similarities, scored, threshold, c) ==
    IF c.raises = "sentence" /\ scored # <<>> THEN ErrorResult
    ELSE ValidationResult(MaxOf(similarities), MeanOf(similarities),
                          FactValidity(FactScores(scored, Len(similarities), c),
                                       threshold),
                          threshold)

\* lines 228-236: np.max of no similarity raises ValueError
ValidateChunks(summary, source_chunks, threshold, c) ==
    IF c.raises \in {"summary", "chunks"} THEN ErrorResult
    ELSE IF source_chunks = <<>> THEN ErrorResult
    ELSE ValidateScored(Similarities(Len(source_chunks), c.top, c.low, c.best),
                        SelectSeq(simple_split_sentences(summary), IsScored),
                        threshold, c)

\* validate_summary without the guard of lines 220-225
validate_summary_unguarded(summary, source_text, threshold, c) ==
    ValidateChunks(summary, ChunkWords(source_text, 500), threshold,
                   [c EXCEPT !.raises = "none"])

validate_summary(summary, source_text, threshold, c) ==
    IF summary = <<>> \/ source_text = <<>> THEN MissingResult
    ELSE ValidateChunks(summary, ChunkWords(source_text, 500), threshold, c)

(***************************************************************************)
(* Calls of validate_summary: summaries with no sentence, with sentences   *)
(* of fewer than 5 words and of 5 words or more; sources that are empty,   *)
(* blank, of one chunk and of two chunks; similarities on both sides of    *)
(* the threshold and of the confidence limits.                             *)
(***************************************************************************)
MaxValSentences == 2

\* one sentence of n words
Sentence(n) ==
    [i \in 1..(2 * n - 1) |->
        IF i % 2 = 0 THEN SP ELSE IF i = 2 * n - 1 THEN wordEnd ELSE wordPlain]

ValSummaries ==
    { <<>>, Sentence(4), Sentence(5),
      Sentence(5) \o <<SP>> \o Sentence(4),
      Sentence(5) \o <<SP>> \o Sentence(6) }

ValSources == { <<>>, <<BlankLine>>, MakeText(10, "plain"), MakeText(501, "plain") }

\* threshold=0.65
DefaultThreshold == 65

Scores == {60, 65, 70, 71, 80, 81}

SentenceScores == {60, 70}

ValCollaborators ==
    [raises : {"none", "summary", "chunks", "sentence"},
     top : Scores, low : Scores, best : 1..2,
     sent : [1..MaxValSentences -> SentenceScores]]

ValInit ==
    /\ inlineFlagsOk = TRUE
    /\ valPc = "idle"
    /\ valSummary \in ValSummaries
    /\ valSource \in ValSources
    /\ valThreshold = DefaultThreshold
    /\ valCollab = <<>> /\ valResult = <<>>
    /\ ChunkIdle /\ SecIdle /\ RetrIdle /\ SumIdle /\ VqIdle /\ KsIdle /\ StoreIdle /\ JobIdle

ValidateSummary ==
    /\ valPc = "idle"
    /\ \E c \in ValCollaborators :
          /\ valCollab' = c
          /\ valResult' = validate_summary(valSummary, valSource, valThreshold, c)
    /\ valPc' = "done"
    /\ UNCHANGED <<valSummary, valSource, valThreshold, envVars, chunkVars, secVars,
                   retrVars, sumVars, vqVars, ksVars, storeVars, jobVars>>

ValNext == ValidateSummary

SpecValidate == ValInit /\ [][ValNext]_vars

(***************************************************************************)
(* validate_query_summary.  The chunks are texts of tokens; the embedding  *)
(* model ranks them against the query, scores the summary against the      *)
(* three best (validate_summary), and scores the summary against the       *)
(* query (query_relevance, in hundredths).                                 *)
(***************************************************************************)
\* lines 280-285
MissingQueryResult ==
    [valid |-> FALSE, score |-> 0, message |-> "Missing summary or query"]

\* np.argsort(similarities): the indices of the chunks, lowest similarity
\* first
ArgSort(n, order) == [k \in 1..n |-> IF order = "ascending" THEN k ELSE n + 1 - k]

\* np.argsort(similarities)[-3:][::-1]
TopIndices(ranking) ==
    [k \in 1..Min(3, Len(ranking)) |-> ranking[Len(ranking) + 1 - k]]

\* " ".join([chunks[i] for i in top_indices])
RelevantText(chunks, top_indices) ==
    JoinTexts([k \in 1..Len(top_indices) |-> chunks[top_indices[k]]])

\* lines 299-308
QueryValidationResult(basic_validation, query_relevance, threshold) ==
    ("query_relevance" :> query_relevance) @@
    [basic_validation EXCEPT
        !.valid = basic_validation.valid /\ (query_relevance > threshold),
        !.message =
            IF query_relevance < threshold
            THEN "Summary doesn't specifically address the query."
            ELSE IF ~basic_validation.valid
            THEN "Summary contains information not supported by the document."
            ELSE basic_validation.message]

\* lines 294-310: model.encode([query, summary]) may raise
ValidateAgainstQuery(basic_validation, threshold, c) ==
    IF c.raises = "pair" THEN ErrorResult
    ELSE QueryValidationResult(basic_validation, c.relevance, threshold)

\* def validate_query_summary(summary, query, chunks, embeddings, threshold).
\* c.raises names the step that raises, if any: model.encode([query]),
\* np.dot on the embeddings of no chunk (a shape mismatch, where the build
\* raises one), or model.encode([query, summary]); c.inner is the embedding
\* model's behaviour inside validate_summary
validate_query_summary(summary, query, chunks, threshold, c) ==
    IF summary = <<>> \/ query = <<>> THEN MissingQueryResult
    ELSE IF c.raises = "query" THEN ErrorResult
    ELSE IF c.raises = "dot" /\ chunks = <<>> THEN ErrorResult
    ELSE ValidateAgainstQuery(
             validate_summary(summary,
                              RelevantText(chunks, TopIndices(ArgSort(Len(chunks), c.order))),
                              threshold, c.inner),
             threshold, c)

(***************************************************************************)
(* Calls of validate_query_summary: with and without a summary and a       *)
(* query; no chunk, one chunk, four chunks; the summary grounded or not;   *)
(* query_relevance below, at and above the threshold.                      *)
(***************************************************************************)
\* What is X?
VqQuery == <<<<"W", "h", "a", "t">>, SP, <<"i", "s">>, SP, <<"X", "?">>>>

VqChunkLists ==
    { <<>>, <<MakeText(10, "plain")>>,
      <<MakeText(10, "plain"), MakeText(20, "plain"), MakeText(10, "ragged"),
        MakeText(30, "plain")>> }

Relevances == {60, 65, 70}

VqInner ==
    {vc \in ValCollaborators :
        /\ vc.raises \in {"none", "summary"}
        /\ vc.top \in {60, 65, 81} /\ vc.low = 60 /\ vc.best = 1
        /\ \A j \in DOMAIN vc.sent : vc.sent[j] = 70}

VqCollaborators ==
    [raises : {"none", "query", "dot", "pair"}, order : {"ascending", "descending"},
     relevance : Relevances, inner : VqInner]

VqInit ==
    /\ inlineFlagsOk = TRUE
    /\ vqPc = "idle"
    /\ vqSummary \in {<<>>, Sentence(5)}
    /\ vqQuery \in {<<>>, VqQuery}
    /\ vqChunks \in VqChunkLists
    /\ vqThreshold = DefaultThreshold
    /\ vqCollab = <<>> /\ vqResult = <<>>
    /\ ChunkIdle /\ SecIdle /\ RetrIdle /\ SumIdle /\ ValIdle /\ KsIdle /\ StoreIdle /\ JobIdle

ValidateQuerySummary ==
    /\ vqPc = "idle"
    /\ \E c \in VqCollaborators :
          /\ vqCollab' = c
          /\ vqResult' = validate_query_summary(vqSummary, vqQuery, vqChunks, vqThreshold, c)
    /\ vqPc' = "done"
    /\ UNCHANGED <<vqSummary, vqQuery, vqChunks, vqThreshold, envVars, chunkVars, secVars,
                   retrVars, sumVars, valVars, ksVars, storeVars, jobVars>>

VqNext == ValidateQuerySummary

SpecValidateQuery == VqInit /\ [][VqNext]_vars

(***************************************************************************)
(* Calls of extract_key_sentences on texts of numbered sentences           *)
(* ("word n1. word n2. ..."), with every behaviour of the tokenizer.       *)
(***************************************************************************)
\* lines 106-116, on indices: the (1-based) indices of the sentences that
\* are joined, in the order in which they are joined
KeySentenceIndices(count, num_sentences) ==
    IF count <= num_sentences THEN [k \in 1..count |-> k]
    ELSE [k \in 1..Min(count, Max(1, num_sentences \div 2)) |-> k]
         \o <<count \div 2 + 1>>
         \o [k \in 1..Min(count, num_sentences \div 2 + 1) |->
                Max(1, count - (num_sentences \div 2 + 1) + 1) + k - 1]

MaxSentences == 8

MaxNumSentences == 6

NumberedSentence(k) ==
    <<wordPlain, SP,
      <<"n", <<"0", "1", "2", "3", "4", "5", "6", "7", "8", "9">>[(k % 10) + 1], ".">>>>

NumberedText(count) == JoinTexts([k \in 1..count |-> NumberedSentence(k)])

KsInit ==
    /\ inlineFlagsOk = TRUE
    /\ ksPc = "idle"
    /\ ksText \in {NumberedText(count) : count \in 0..MaxSentences}
    /\ ksNum \in 1..MaxNumSentences
    /\ ksTokenizer = "" /\ ksResult = <<>> /\ ksSelected = <<>>
    /\ ChunkIdle /\ SecIdle /\ RetrIdle /\ SumIdle /\ ValIdle /\ VqIdle /\ StoreIdle /\ JobIdle

ExtractKeySentences ==
    /\ ksPc = "idle"
    /\ \E tokenizer \in Tokenizers :
          /\ ksTokenizer' = tokenizer
          /\ ksResult' = extract_key_sentences(ksText, ksNum, tokenizer)
          /\ ksSelected' = KeySentenceIndices(Len(KeySentencesSource(ksText, tokenizer)),
                                              ksNum)
    /\ ksPc' = "done"
    /\ UNCHANGED <<ksText, ksNum, envVars, chunkVars, secVars, retrVars, sumVars, valVars,
                   vqVars, storeVars, jobVars>>

KsNext == ExtractKeySentences

SpecKeySentences == KsInit /\ [][KsNext]_vars

(***************************************************************************)
(* The DocumentStore of QueryNest/backend/main.py, from the empty store    *)
(* (no store file to load).  documents holds the ids in insertion order,   *)
(* as the dict does; an id is the uuid4 string add_document draws, or the  *)
(* 'id' of doc_data.                                                       *)
(***************************************************************************)
DocIds == {<<"d", "1">>, <<"d", "2">>, <<"d", "3">>}

\* doc_id in self.documents
InStore(docs, doc_id) == \E k \in 1..Len(docs) : docs[k] = doc_id

\* self.documents[doc_id] = doc_data
WithDocument(docs, doc_id) == IF InStore(docs, doc_id) THEN docs ELSE Append(docs, doc_id)

\* del self.documents[doc_id]
WithoutDocument(docs, doc_id) == SelectSeq(docs, LAMBDA d : d # doc_id)

\* the active id left as it is when its document is removed
NextActiveStale(docs, active, doc_id) == active

\* lines 85-86, docs the documents after the removal
NextActive(docs, active, doc_id) ==
    IF active = doc_id THEN (IF docs # <<>> THEN docs[1] ELSE None) ELSE active

StoreInit ==
    /\ inlineFlagsOk = TRUE
    /\ documents = <<>> /\ active_document_id = None
    /\ storeOp = "" /\ storeArg = <<>> /\ storeReturn = ""
    /\ prevDocuments = <<>> /\ prevActive = None
    /\ ChunkIdle /\ SecIdle /\ RetrIdle /\ SumIdle /\ ValIdle /\ VqIdle /\ KsIdle /\ JobIdle

\* what every call records
StoreCall(op, doc_id) ==
    /\ storeOp' = op /\ storeArg' = doc_id
    /\ prevDocuments' = documents /\ prevActive' = active_document_id
    /\ UNCHANGED <<envVars, chunkVars, secVars, retrVars, sumVars, valVars, vqVars, ksVars, jobVars>>

\* def add_document(self, doc_data)
AddDocument ==
    \E doc_id \in DocIds :
        /\ documents' = WithDocument(documents, doc_id)
        /\ active_document_id' =
              IF ~Truthy(active_document_id) THEN doc_id ELSE active_document_id
        /\ storeReturn' = "doc_id"
        /\ StoreCall("add_document", doc_id)

\* def set_active_document(self, doc_id)
SetActiveDocument ==
    \E doc_id \in DocIds :
        /\ IF InStore(documents, doc_id)
           THEN /\ active_document_id' = doc_id
                /\ storeReturn' = "True"
           ELSE /\ active_document_id' = active_document_id
                /\ storeReturn' = "False"
        /\ documents' = documents
        /\ StoreCall("set_active_document", doc_id)

\* def remove_document(self, doc_id)
RemoveDocument ==
    \E doc_id \in DocIds :
        /\ IF InStore(documents, doc_id)
           THEN /\ documents' = WithoutDocument(documents, doc_id)
                /\ active_document_id' =
                      NextActive(WithoutDocument(documents, doc_id), active_document_id, doc_id)
                /\ storeReturn' = "True"
           ELSE /\ documents' = documents
                /\ active_document_id' = active_document_id
                /\ storeReturn' = "False"
        /\ StoreCall("remove_document", doc_id)

StoreNext == AddDocument \/ SetActiveDocument \/ RemoveDocument

SpecStore == StoreInit /\ [][StoreNext]_vars

(***************************************************************************)
(* The generation jobs of QueryBuild.  generate_files enters a job in      *)
(* job_status and hands process_generation to the background tasks; the    *)
(* task writes the job's progress and status one assignment at a time,     *)
(* and check_status and download_file read the table between any two of    *)
(* these writes.  A progress value is the exact fraction the source        *)
(* computes in floating point.                                             *)
(***************************************************************************)
JobIds == {"job-1"}

\* a progress value num/den
Frac(n, d) == [num |-> n, den |-> d]

FracAdd(a, b) == Frac(a.num * b.den + b.num * a.den, a.den * b.den)

FracHalf(a) == Frac(a.num, 2 * a.den)

FracLeq(a, b) == a.num * b.den <= b.num * a.den

FracEq(a, b) == a.num * b.den = b.num * a.den

kwCode == <<"c", "o", "d", "e">>

kwNotebook == <<"n", "o", "t", "e", "b", "o", "o", "k">>

kwPpt == <<"p", "p", "t">>

kwPresentation == <<"p", "r", "e", "s", "e", "n", "t", "a", "t", "i", "o", "n">>

\* the output_types and language form fields of the requests
otCode == kwCode

otPpt == kwPpt

otAll == <<"c", "o", "d", "e", ",", "n", "o", "t", "e", "b", "o", "o", "k", ",", "p", "p", "t">>

otSpaced == <<" ", "C", "o", "d", "e", " ", ",", " ", "P", "P", "T">>

otSlides == <<"s", "l", "i", "d", "e", "s">>

otPptPresentation == <<"p", "p", "t", ",", "p", "r", "e", "s", "e", "n", "t", "a", "t", "i", "o", "n">>

OutputTypes == {otCode, otPpt, kwNotebook, otAll, otSpaced, <<>>, otSlides, otPptPresentation}

langPython == <<"p", "y", "t", "h", "o", "n">>

langNotebook == <<"N", "o", "t", "e", "b", "o", "o", "k">>

Languages == {None, <<>>, langPython, langNotebook}

\* the file extensions generate_code_file may settle on
Extensions == {"py", "js"}

\* output_types.split(","): the pieces between the commas, at least one
SplitComma(s) ==
    LET RECURSIVE Go(_, _, _)
        Go(i, cur, acc) ==
            IF i > Len(s) THEN Append(acc, cur)
            ELSE IF s[i] = "," THEN Go(i + 1, <<>>, Append(acc, cur))
            ELSE Go(i + 1, Append(cur, s[i]), acc)
    IN Go(1, <<>>, <<>>)

\* [t.strip().lower() for t in output_types.split(",")]
RequestedTypes(output_types) ==
    [k \in DOMAIN SplitComma(output_types) |-> Lower(Strip(SplitComma(output_types)[k]))]

\* x in requested_types
Requested(x, requested_types) == \E k \in DOMAIN requested_types : requested_types[k] = x

\* 90 / max(len(requested_types), 1)
ProgressStep(requested_types) == Frac(90, Max(Len(requested_types), 1))

\* the three generation stages in the order process_generation takes them
Stages == <<"code", "notebook", "ppt">>

\* the condition under which process_generation enters a stage
StageRequested(stage, requested_types, language) ==
    CASE stage = "code" ->
            Requested(kwCode, requested_types)
            \/ (Truthy(language) /\ Lower(language) # kwNotebook)
      [] stage = "notebook" ->
            Requested(kwNotebook, requested_types)
            \/ (Truthy(language) /\ Lower(language) = kwNotebook)
      [] stage = "ppt" ->
            Requested(kwPpt, requested_types) \/ Requested(kwPresentation, requested_types)

\* the status a stage writes before it calls its generator
StageStatusText(stage) ==
    CASE stage = "code" -> "analyzing query and generating code"
      [] stage = "notebook" -> "generating notebook"
      [] stage = "ppt" -> "generating presentation"

\* the name a stage's file gets in the package
ArcName(stage, ext) ==
    CASE stage = "code" -> IF ext = "py" THEN "solution.py" ELSE "solution.js"
      [] stage = "notebook" -> "notebook.ipynb"
      [] stage = "ppt" -> "presentation.pptx"

\* f"generated {detected_lang} code"
GeneratedStatus(ext) == IF ext = "py" THEN "generated py code" ELSE "generated js code"

\* job_status[job_id] = {"status": "processing", "progress": 0}
NewJob == [status |-> "processing", progress |-> Frac(0, 1)]

\* the update that leaves the error and the progress but not the status
ErrorUpdate(job, error) ==
    [k \in DOMAIN job \cup {"error", "progress"} |->
        CASE k = "error" -> error
          [] k = "progress" -> Frac(0, 1)
          [] OTHER -> job[k]]

\* job.update({"status": "failed", "error": ..., "progress": 0})
FailedUpdate(job, error) ==
    [k \in DOMAIN job \cup {"status", "error", "progress"} |->
        CASE k = "status" -> "failed"
          [] k = "error" -> error
          [] k = "progress" -> Frac(0, 1)
          [] OTHER -> job[k]]

\* job.update({"status": "completed", "progress": 100, "file_path": zip_path})
CompletedUpdate(job, zip_path) ==
    [k \in DOMAIN job \cup {"status", "progress", "file_path"} |->
        CASE k = "status" -> "completed"
          [] k = "progress" -> Frac(100, 1)
          [] k = "file_path" -> zip_path
          [] OTHER -> job[k]]

\* f"{output_dir}/project_package.zip"
ZipPath(job_id) == <<"output/generated_files", job_id, "project_package.zip">>

\* d with d[k] = v, a new key included
WithKey(d, k, v) == [x \in DOMAIN d \cup {k} |-> IF x = k THEN v ELSE d[x]]

\* the task's position after the stage it is in
AfterStage(t) ==
    IF t.stage < Len(Stages)
    THEN [t EXCEPT !.stage = t.stage + 1, !.pc = "test"]
    ELSE [t EXCEPT !.pc = "package"]

NoResponse == [code |-> 0]

JobInit ==
    /\ job_status = <<>>
    /\ task = <<>>
    /\ statusResponse = NoResponse
    /\ downloadResponse = NoResponse
    /\ inlineFlagsOk = TRUE
    /\ ChunkIdle /\ SecIdle /\ RetrIdle /\ SumIdle /\ ValIdle /\ VqIdle /\ KsIdle /\ StoreIdle

JobOthersUnchanged ==
    UNCHANGED <<envVars, chunkVars, secVars, retrVars, sumVars, valVars, vqVars, ksVars, storeVars>>

\* generate_files: the job is entered as processing and the task is queued
GenerateFiles(job_id, language, output_types) ==
    /\ job_id \notin DOMAIN job_status
    /\ job_status' = WithKey(job_status, job_id, NewJob)
    /\ task' = WithKey(task, job_id,
                       [pc |-> "start", stage |-> 1, language |-> language,
                        output_types |-> output_types, requested_types |-> <<>>,
                        progress_step |-> Frac(0, 1), current_progress |-> Frac(0, 1),
                        generated_files |-> <<>>])
    /\ UNCHANGED <<statusResponse, downloadResponse>>
    /\ JobOthersUnchanged

\* the except clause of process_generation
Fails(job_id, error) ==
    /\ job_status' = [job_status EXCEPT ![job_id] = FailedUpdate(@, error)]
    /\ task' = [task EXCEPT ![job_id].pc = "done"]

\* process_generation up to its first stage: the output directory is made,
\* or making it raises, and the requested types and the step are computed
ProcessStart(job_id) ==
    /\ job_id \in DOMAIN task
    /\ task[job_id].pc = "start"
    /\ \E raises \in BOOLEAN :
          IF raises
          THEN Fails(job_id, "makedirs")
          ELSE /\ task' = [task EXCEPT
                     ![job_id].requested_types = RequestedTypes(task[job_id].output_types),
                     ![job_id].progress_step =
                         ProgressStep(RequestedTypes(task[job_id].output_types)),
                     ![job_id].current_progress = Frac(0, 1),
                     ![job_id].pc = "test"]
               /\ UNCHANGED job_status
    /\ UNCHANGED <<statusResponse, downloadResponse>>
    /\ JobOthersUnchanged

\* the if of a stage and, when it is taken, the write of the progress
StageProgress(job_id) ==
    /\ job_id \in DOMAIN task
    /\ task[job_id].pc = "test"
    /\ LET t == task[job_id]
       IN IF StageRequested(Stages[t.stage], t.requested_types, t.language)
          THEN /\ job_status' = [job_status EXCEPT ![job_id].progress =
                      FracAdd(t.current_progress, FracHalf(t.progress_step))]
               /\ task' = [task EXCEPT ![job_id].pc = "status"]
          ELSE /\ task' = [task EXCEPT ![job_id] = AfterStage(t)]
               /\ UNCHANGED job_status
    /\ UNCHANGED <<statusResponse, downloadResponse>>
    /\ JobOthersUnchanged

\* the write of the status of a stage
StageStatus(job_id) ==
    /\ job_id \in DOMAIN task
    /\ task[job_id].pc = "status"
    /\ job_status' = [job_status EXCEPT ![job_id].status =
                          StageStatusText(Stages[task[job_id].stage])]
    /\ task' = [task EXCEPT ![job_id].pc = "call"]
    /\ UNCHANGED <<statusResponse, downloadResponse>>
    /\ JobOthersUnchanged

\* the generator of a stage returns its file, or raises
StageCall(job_id) ==
    /\ job_id \in DOMAIN task
    /\ task[job_id].pc = "call"
    /\ LET t == task[job_id]
           stage == Stages[t.stage]
       IN \E raises \in BOOLEAN, ext \in Extensions :
             IF raises
             THEN Fails(job_id, stage)
             ELSE /\ task' = [task EXCEPT ![job_id] =
                         AfterStage([t EXCEPT
                             !.generated_files = Append(@, ArcName(stage, ext)),
                             !.current_progress = FracAdd(@, t.progress_step)])]
                  /\ job_status' =
                         IF stage = "code"
                         THEN [job_status EXCEPT ![job_id].status = GeneratedStatus(ext)]
                         ELSE job_status
    /\ UNCHANGED <<statusResponse, downloadResponse>>
    /\ JobOthersUnchanged

\* if generated_files: the write of progress 80; else: the job fails
Package(job_id) ==
    /\ job_id \in DOMAIN task
    /\ task[job_id].pc = "package"
    /\ IF task[job_id].generated_files # <<>>
       THEN /\ job_status' = [job_status EXCEPT ![job_id].progress = Frac(80, 1)]
            /\ task' = [task EXCEPT ![job_id].pc = "package_status"]
       ELSE /\ job_status' = [job_status EXCEPT ![job_id] =
                                  FailedUpdate(@, "No output types were specified or recognized")]
            /\ task' = [task EXCEPT ![job_id].pc = "done"]
    /\ UNCHANGED <<statusResponse, downloadResponse>>
    /\ JobOthersUnchanged

\* the write of the status "packaging files"
PackageStatus(job_id) ==
    /\ job_id \in DOMAIN task
    /\ task[job_id].pc = "package_status"
    /\ job_status' = [job_status EXCEPT ![job_id].status = "packaging files"]
    /\ task' = [task EXCEPT ![job_id].pc = "zip"]
    /\ UNCHANGED <<statusResponse, downloadResponse>>
    /\ JobOthersUnchanged

\* the package is written and the job completes, or writing it raises
Zip(job_id) ==
    /\ job_id \in DOMAIN task
    /\ task[job_id].pc = "zip"
    /\ \E raises \in BOOLEAN :
          IF raises
          THEN Fails(job_id, "zipfile")
          ELSE /\ job_status' = [job_status EXCEPT ![job_id] =
                                     CompletedUpdate(@, ZipPath(job_id))]
               /\ task' = [task EXCEPT ![job_id].pc = "done"]
    /\ UNCHANGED <<statusResponse, downloadResponse>>
    /\ JobOthersUnchanged

\* one step of the background task process_generation
TaskStep(job_id) ==
    \/ ProcessStart(job_id)
    \/ StageProgress(job_id)
    \/ StageStatus(job_id)
    \/ StageCall(job_id)
    \/ Package(job_id)
    \/ PackageStatus(job_id)
    \/ Zip(job_id)

\* check_status
CheckStatus(job_id) ==
    /\ statusResponse' =
          IF job_id = "test"
          THEN [code |-> 200, job_id |-> job_id,
                body |-> [status |-> "ok", message |-> "Server is reachable"]]
          ELSE IF job_id \notin DOMAIN job_status
          THEN [code |-> 404, job_id |-> job_id, body |-> [error |-> "Job not found"]]
          ELSE [code |-> 200, job_id |-> job_id, body |-> job_status[job_id]]
    /\ UNCHANGED <<job_status, task, downloadResponse>>
    /\ JobOthersUnchanged

\* download_file
DownloadFile(job_id) ==
    /\ downloadResponse' =
          IF job_id \notin DOMAIN job_status \/ job_status[job_id].status # "completed"
          THEN [code |-> 404, job_id |-> job_id,
                body |-> [error |-> "Files not ready or job not found"]]
          ELSE IF "file_path" \in DOMAIN job_status[job_id]
          THEN [code |-> 200, job_id |-> job_id,
                body |-> [file |-> job_status[job_id].file_path]]
          ELSE [code |-> 500, job_id |-> job_id, body |-> [error |-> "KeyError"]]
    /\ UNCHANGED <<job_status, task, statusResponse>>
    /\ JobOthersUnchanged

JobNext ==
    \/ \E job_id \in JobIds, language \in Languages, output_types \in OutputTypes :
          GenerateFiles(job_id, language, output_types)
    \/ \E job_id \in JobIds : TaskStep(job_id)
    \/ \E job_id \in JobIds \cup {"test"} : CheckStatus(job_id)
    \/ \E job_id \in JobIds : DownloadFile(job_id)

SpecJobs == JobInit /\ [][JobNext]_vars

\* the background task of a job is run once the response of generate_files
\* is sent, and each statement of it follows the one before
FairSpecJobs == SpecJobs /\ WF_vars(\E job_id \in JobIds : TaskStep(job_id))

(***************************************************************************)
(* Retrieval claims.  EffectiveTarget is the target a call of              *)
(* query_section works with: the identifier found in the prompt, else the  *)
(* target_section it was given, else None.                                 *)
(***************************************************************************)
Range(f) == {f[i] : i \in DOMAIN f}

IsPrefix(p, t) == Len(p) <= Len(t) /\ SubSeq(t, 1, Len(p)) = p

EffectiveTarget ==
    IF Truthy(extract_problem_statement_num_from_query(rPrompt))
    THEN extract_problem_statement_num_from_query(rPrompt)
    ELSE rTarget

\* the chunks that match the exact tier, and the broad tier, for the target
Tier1 == {i \in 1..Len(doc.metadata) : ExactMatch(doc.metadata[i], EffectiveTarget)}

Tier2 == {i \in 1..Len(doc.metadata) : BroadMatch(doc.metadata[i], EffectiveTarget)}

TargetedCall ==
    /\ rPc = "done" /\ rCall = "query_section"
    /\ doc.chunks # <<>>
    /\ Truthy(EffectiveTarget)

CouldNotFindMessage == strCouldNotFind \o EffectiveTarget \o strInTheDocument

(***************************************************************************)
(* C1: with an effective target, the candidate chunk set of query_section  *)
(* is exactly the exact-tier matches whenever there is one; it is exactly  *)
(* the broad-tier matches only when the exact tier is empty and the broad  *)
(* tier is not; the third tier is reached only when both are empty; the    *)
(* tiers are never merged, and a returned answer is sourced from a chunk   *)
(* of the first non-empty tier.                                            *)
(***************************************************************************)
C1_TiersAreAlternatives ==
    TargetedCall =>
        LET candidates == Range(rResult.section_indices)
            first == IF Tier1 # {} THEN Tier1 ELSE Tier2
        IN /\ Tier1 # {} => candidates = Tier1
           /\ (Tier1 = {} /\ Tier2 # {}) => candidates = Tier2
           /\ (candidates = Tier2 /\ candidates # Tier1) => (Tier1 = {} /\ Tier2 # {})
           /\ (candidates = {} \/ rResult.value = CouldNotFindMessage)
                 => (Tier1 = {} /\ Tier2 = {})
           /\ rResult.encodeCalls > 0 => Range(rResult.scored) = first
           /\ rResult.best # 0 => rResult.best \in first
           /\ (rResult.outcome = "returned" /\ first # {}) =>
                 \E a \in Answers :
                     rResult.value = strFrom \o doc.metadata[rResult.best].section
                                         \o strColonSp \o a

C1_Witness ==
    /\ TargetedCall
    /\ Tier1 = {} /\ Tier2 # {}
    /\ Tier2 # 1..Len(doc.chunks)
    /\ rResult.outcome = "returned"
    /\ rResult.best \in Tier2

(***************************************************************************)
(* C2: when a target is present and neither the exact tier nor the broad   *)
(* tier matches any chunk, query_section abandons the section-scoped       *)
(* search and searches the full unfiltered chunk set with the target       *)
(* dropped, returning an answer from the best-scoring chunk of the whole   *)
(* document without a section prefix.                                      *)
(***************************************************************************)
C2_GlobalTierSearchesAllChunks ==
    (TargetedCall /\ Tier1 = {} /\ Tier2 = {}) =>
        /\ rResult.scored = [i \in 1..Len(doc.chunks) |-> i]
        /\ rResult.encodeCalls = 1
        /\ rResult.outcome = "returned" => rResult.value \in Answers

\* amended: the section-scoped search fails with the "Could not find
\* problem statement {t} in the document." result; no chunk is scored and
\* no collaborator is called
C2_NoTierMatchesReturnsCouldNotFind ==
    (TargetedCall /\ Tier1 = {} /\ Tier2 = {}) =>
        /\ rResult.outcome = "returned"
        /\ rResult.value = CouldNotFindMessage
        /\ rResult.scored = <<>>
        /\ rResult.best = 0
        /\ rResult.encodeCalls = 0 /\ rResult.qaCalls = 0

C2_Witness ==
    /\ TargetedCall /\ Tier1 = {} /\ Tier2 = {}
    /\ Len(doc.chunks) = 2
    /\ rResult.value = CouldNotFindMessage

(***************************************************************************)
(* C3: for a query that names "problem statement n", against a document    *)
(* that has a section headed "Problem Statement n" among other sections,   *)
(* every chunk of the candidate set that is scored belongs to section n,   *)
(* and the returned answer is prefixed "From Problem Statement n:".        *)
(***************************************************************************)
strTitlePs2 == <<"P", "r", "o", "b", "l", "e", "m", " ", "S", "t", "a", "t", "e", "m", "e", "n", "t", " ", "2">>

C3_OnlyChunksOfNamedSection ==
    (/\ rPc = "done" /\ rCall = "query_section"
     /\ rPrompt = promptRequired
     /\ \E k \in 1..Len(doc.sections) : doc.sections[k].title = strTitlePs2) =>
        /\ \A j \in Range(rResult.section_indices) \cup Range(rResult.scored) :
              doc.metadata[j].section = strTitlePs2
        /\ rResult.outcome = "returned" =>
              IsPrefix(strFrom \o strTitlePs2 \o <<":">>, rResult.value)

\* what holds of the code: every candidate's section title contains
\* "problem statement n", and the answer is prefixed with the title of the
\* section of the chunk that scored best
C3_CandidatesContainTheTerm ==
    (/\ rPc = "done" /\ rCall = "query_section"
     /\ rPrompt = promptRequired
     /\ \E j \in 1..Len(doc.metadata) : doc.metadata[j].section = strTitlePs2) =>
        /\ rResult.section_indices # <<>>
        /\ \A j \in Range(rResult.section_indices) \cup Range(rResult.scored) :
              Contains(Lower(strTitlePs2), Lower(doc.metadata[j].section))
        /\ rResult.outcome = "returned" =>
              IsPrefix(strFrom \o strTitlePs2, rResult.value)

(***************************************************************************)
(* C9: summarize_document never raises to its caller: for every input text *)
(* and max_length, and for every combination of failures of the            *)
(* abstractive summarizer and of the sentence tokenizer, the call returns  *)
(* a string.                                                               *)
(***************************************************************************)
C9_SummarizeNeverRaises ==
    sumPc = "done" =>
        /\ sumResult.outcome = "returned"
        /\ \A i \in DOMAIN sumResult.value : sumResult.value[i] # <<>>

\* every summarizer call raises and the tokenizer fails, in each tier that
\* calls the summarizer
C9_Witness ==
    /\ sumPc = "done"
    /\ Len(Words(sumText)) > 3000
    /\ sumCollab.s1 = "raises" /\ sumCollab.s2 = "raises" /\ sumCollab.s3 = "raises"
    /\ sumCollab.tokenizer = "tokenize_fails"
    /\ sumResult.outcome = "returned"
    /\ sumResult.value # <<>>

(***************************************************************************)
(* C10: no failure of an external model collaborator (embedding, question  *)
(* answering, abstractive summarization) escapes a core entry point as an  *)
(* exception: query_section, query_document and summarize_document each    *)
(* return a result value when the collaborator they call fails.            *)
(***************************************************************************)
CollaboratorFailed ==
    /\ rResult.encodeCalls > 0
    /\ \/ rCollab.encodeRaises
       \/ rResult.qaCalls > 0 /\ rCollab.qaRaises

C10_NoCollaboratorFailureEscapes ==
    /\ (rPc = "done" /\ CollaboratorFailed) => rResult.outcome = "returned"
    /\ (sumPc = "done" /\ "raises" \in {sumCollab.s1, sumCollab.s2, sumCollab.s3})
          => sumResult.outcome = "returned"

(***************************************************************************)
(* C4: the sections detect_sections returns, in order, cover the whole of  *)
(* [0, len(text)): the first starts at offset 0, the last ends at          *)
(* len(text), and each ends where the next starts.                         *)
(***************************************************************************)
C4_SectionsCoverText ==
    secPc = "returned" =>
        /\ sections[1].start_idx = 0
        /\ sections[Len(sections)].end_idx = Len(secText)
        /\ \A i \in 1..(Len(sections) - 1) :
              sections[i].end_idx = sections[i + 1].start_idx

\* what holds of the code: coverage starts at the first heading
C4_CoverFromFirstHeading ==
    secPc = "returned" =>
        /\ sections[1].start_idx =
              (IF Finditer(secText) = <<>> THEN 0 ELSE Finditer(secText)[1].start)
        /\ sections[Len(sections)].end_idx = Len(secText)
        /\ \A i \in 1..(Len(sections) - 1) :
              sections[i].end_idx = sections[i + 1].start_idx

(***************************************************************************)
(* C5: for a text with N >= 1 heading matches detect_sections returns      *)
(* exactly N sections in document order, strictly ordered by start offset  *)
(* and non-overlapping, section i ending where section i+1 starts, and     *)
(* section i's content is the text between the end of heading match i and  *)
(* the start of heading match i+1 (the end of the text for the last).      *)
(***************************************************************************)
SectionsOrdered ==
    LET matches == Finditer(secText)
    IN /\ Len(sections) = Len(matches)
       /\ \A i \in 1..Len(sections) :
             /\ sections[i].start_idx = matches[i].start
             /\ sections[i].start_idx < sections[i].end_idx
             /\ sections[i].end_idx <= Len(secText)
       /\ \A i \in 1..(Len(sections) - 1) :
             /\ sections[i].start_idx < sections[i + 1].start_idx
             /\ sections[i].end_idx = sections[i + 1].start_idx

\* the text between the end of heading match i and the start of the next
TextAfterHeading(i) ==
    LET matches == Finditer(secText)
    IN Slice(secText, matches[i].end,
             IF i < Len(matches) THEN matches[i + 1].start ELSE Len(secText))

\* the claim as stated: the content is that text itself
C5_ContentIsTextBetween ==
    (secPc = "returned" /\ Finditer(secText) # <<>>) =>
        /\ SectionsOrdered
        /\ \A i \in 1..Len(sections) : sections[i].content = TextAfterHeading(i)

\* amended: the content is that text with its leading and trailing
\* whitespace stripped
C5_ContentIsStrippedTextBetween ==
    (secPc = "returned" /\ Finditer(secText) # <<>>) =>
        /\ SectionsOrdered
        /\ \A i \in 1..Len(sections) :
              sections[i].content = Strip(TextAfterHeading(i))

C5_Witness ==
    /\ secPc = "returned"
    /\ Len(Finditer(secText)) >= 2
    /\ Len(sections) = Len(Finditer(secText))
    /\ sections[1].content # <<>>
    /\ sections[1].content # TextAfterHeading(1)

(***************************************************************************)
(* C6: for a text in which no heading pattern matches, detect_sections     *)
(* returns exactly one section, titled "Document", whose range is          *)
(* [0, len(text)) and whose content is the whole text.                     *)
(***************************************************************************)
C6_NoHeadingOneDocumentSection ==
    (secPc = "returned" /\ \A i \in 0..Len(secText) : CombinedAlt(secText, i) = 0) =>
        /\ Len(sections) = 1
        /\ sections[1].title = strDocument
        /\ sections[1].start_idx = 0
        /\ sections[1].end_idx = Len(secText)
        /\ sections[1].content = secText

C6_Witness ==
    /\ secPc = "returned"
    /\ \A i \in 0..Len(secText) : CombinedAlt(secText, i) = 0
    /\ Len(secText) > 0
    /\ IsSpace(secText[Len(secText)])
    /\ Len(sections) = 1

(***************************************************************************)
(* C7: a section whose heading is of the "problem statement N" or "ps N"   *)
(* style has std_title "problem statement N", N its section_num; a section *)
(* with another heading style (problem N:, section, chapter, part) has     *)
(* std_title equal to its title; every returned section carries a          *)
(* std_title field.                                                        *)
(***************************************************************************)
ProblemStatementStyles == {1, 2, 4}

C7_StdTitle ==
    secPc = "returned" =>
        \A i \in 1..Len(sections) :
            /\ "std_title" \in DOMAIN sections[i]
            /\ LET alt == CombinedAlt(secText, sections[i].start_idx)
               IN /\ alt \in ProblemStatementStyles =>
                        sections[i].std_title =
                            strProblemStatementSp \o sections[i].section_num
                  /\ alt \in (1..NumSectionPatterns) \ ProblemStatementStyles =>
                        sections[i].std_title = sections[i].title

\* what holds of the code: the same, of the sections that come from a heading
C7_StdTitleOfHeadings ==
    (secPc = "returned" /\ Finditer(secText) # <<>>) =>
        \A i \in 1..Len(sections) :
            /\ "std_title" \in DOMAIN sections[i]
            /\ LET alt == CombinedAlt(secText, sections[i].start_idx)
               IN /\ alt \in ProblemStatementStyles =>
                        sections[i].std_title =
                            strProblemStatementSp \o sections[i].section_num
                  /\ alt \in (1..NumSectionPatterns) \ ProblemStatementStyles =>
                        sections[i].std_title = sections[i].title

(***************************************************************************)
(* C11: summarize_document on any input of fewer than 50 words (a 40-word  *)
(* input, say) returns the fixed "too short" message, and never the input  *)
(* text or a model summary.                                                *)
(***************************************************************************)
C11_FewerThan50WordsTooShort ==
    (sumPc = "done" /\ Len(Words(sumText)) < 50) =>
        sumResult = Returned(strTooShort)

\* what holds of the code: the threshold of line 119 counts the characters
\* of the stripped text, and a text that passes it with fewer than 100
\* words is returned cleaned
C11_FewerThan50CharactersTooShort ==
    sumPc = "done" =>
        /\ (sumText = <<>> \/ CharLen(TokStrip(sumText)) < 50)
              <=> sumResult = Returned(strTooShort)
        /\ (Len(Words(sumText)) < 100 /\ CharLen(TokStrip(sumText)) >= 50)
              => sumResult = Returned(clean_text_for_summarization(sumText))

(***************************************************************************)
(* C12: summarize_document on an input of 100 to 800 words (120 words,     *)
(* say) returns a non-empty string whose length in characters is at most   *)
(* the configured max_length, both when the abstractive summarizer         *)
(* succeeds and when it fails and the extractive fallback is used.         *)
(***************************************************************************)
C12_DirectTierWithinMaxLength ==
    (sumPc = "done" /\ Len(Words(sumText)) >= 100 /\ Len(Words(sumText)) <= 800) =>
        /\ sumResult.outcome = "returned"
        /\ sumResult.value # <<>>
        /\ CharLen(sumResult.value) <= sumMaxLength

\* what holds of the code: the result is not empty
C12_DirectTierNotEmpty ==
    (sumPc = "done" /\ Len(Words(sumText)) >= 100 /\ Len(Words(sumText)) <= 800) =>
        /\ sumResult.outcome = "returned"
        /\ sumResult.value # <<>>

(***************************************************************************)
(* Validation claims.  A step of validate_summary fails when the embedding *)
(* model raises at a call that is made, or when the source has no word, so *)
(* that there is no chunk and np.max raises.                               *)
(***************************************************************************)
ScoredSentences == SelectSeq(simple_split_sentences(valSummary), IsScored)

ValidateStepFailed ==
    \/ valCollab.raises \in {"summary", "chunks"}
    \/ ~HasWord(valSource)
    \/ valCollab.raises = "sentence" /\ ScoredSentences # <<>>

(***************************************************************************)
(* C13: validate_summary fails closed: whenever the summary or the source  *)
(* text is missing or empty, and whenever an internal step fails, the      *)
(* result has valid = false and score = 0.0, and no embedding call decides *)
(* otherwise.                                                              *)
(***************************************************************************)
C13_ValidateFailsClosed ==
    (valPc = "done" /\ (valSummary = <<>> \/ valSource = <<>> \/ ValidateStepFailed)) =>
        /\ valResult.valid = FALSE
        /\ valResult.score = 0
        /\ (valSummary = <<>> \/ valSource = <<>>) => valResult = MissingResult

\* the summary is missing while the embedding model would put the source
\* above the threshold
C13_Witness ==
    /\ valPc = "done"
    /\ valSummary = <<>> /\ Len(Words(valSource)) > 500
    /\ valCollab.raises = "none" /\ valCollab.top > valThreshold
    /\ valResult.valid = FALSE /\ valResult.score = 0

(***************************************************************************)
(* C14: in validate_summary, fact_validity is the fraction of the summary  *)
(* sentences of at least 5 words whose maximum similarity to the source    *)
(* chunks exceeds the threshold, and it is 1.0 when the summary has no     *)
(* sentence of at least 5 words.                                           *)
(***************************************************************************)
SupportedSentences ==
    {j \in DOMAIN ScoredSentences :
        MaxOf(Similarities(Len(ChunkWords(valSource, 500)),
                           valCollab.sent[j], valCollab.low, valCollab.best))
            > valThreshold}

C14_FactValidity ==
    (valPc = "done" /\ "fact_validity" \in DOMAIN valResult) =>
        IF ScoredSentences = <<>>
        THEN valResult.fact_validity.num = valResult.fact_validity.den
        ELSE valResult.fact_validity =
                 [num |-> Cardinality(SupportedSentences), den |-> Len(ScoredSentences)]

\* what holds of the code: the fraction when a sentence is scored, and 0.0
\* when none is
C14_FactValidityZeroWhenNoneScored ==
    (valPc = "done" /\ "fact_validity" \in DOMAIN valResult) =>
        IF ScoredSentences = <<>>
        THEN valResult.fact_validity = [num |-> 0, den |-> 1]
        ELSE valResult.fact_validity =
                 [num |-> Cardinality(SupportedSentences), den |-> Len(ScoredSentences)]

(***************************************************************************)
(* C15: every result of validate_summary with non-empty inputs has         *)
(* valid = (score >= threshold) and confidence High if score > 0.8, Medium *)
(* if 0.7 < score <= 0.8, Low otherwise, score being the maximum           *)
(* similarity of the summary to any source chunk; valid, score, avg_score, *)
(* fact_validity, confidence and message are present in every result      *)
(* returned.                                                               *)
(***************************************************************************)
ValidationResultFields ==
    {"valid", "score", "avg_score", "fact_validity", "confidence", "message"}

ScoreDecides ==
    /\ valResult.score =
          MaxOf(Similarities(Len(ChunkWords(valSource, 500)),
                             valCollab.top, valCollab.low, valCollab.best))
    /\ valResult.valid = (valResult.score >= valThreshold)
    /\ valResult.confidence =
          (IF valResult.score > 80 THEN "High"
           ELSE IF valResult.score > 70 THEN "Medium" ELSE "Low")

C15_ResultFieldsAndBuckets ==
    /\ valPc = "done" => DOMAIN valResult = ValidationResultFields
    /\ (valPc = "done" /\ valSummary # <<>> /\ valSource # <<>>) => ScoreDecides

\* what holds of the code: the same of the calls in which no step fails;
\* the other results hold valid, score and message only
C15_CompletedValidation ==
    valPc = "done" =>
        IF valSummary = <<>> \/ valSource = <<>> \/ ValidateStepFailed
        THEN DOMAIN valResult = {"valid", "score", "message"}
        ELSE DOMAIN valResult = ValidationResultFields /\ ScoreDecides

(***************************************************************************)
(* C16: query_section and query_document called with an empty chunk list   *)
(* return the "No document content to search." value without raising and   *)
(* without calling the embedding model or the QA pipeline, whatever the    *)
(* query and target_section are.                                           *)
(***************************************************************************)
C16_EmptyChunksNothingToSearch ==
    (rPc = "done" /\ doc.chunks = <<>>) =>
        /\ rResult.outcome = "returned"
        /\ rResult.value = strNoContent
        /\ rResult.encodeCalls = 0 /\ rResult.qaCalls = 0

\* a targeted query whose embedding call would raise, on the empty document
C16_Witness ==
    /\ rPc = "done" /\ rCall = "query_section"
    /\ doc.chunks = <<>>
    /\ rPrompt = promptRequired /\ rTarget = <<"1">>
    /\ rCollab.encodeRaises
    /\ rResult.value = strNoContent

(***************************************************************************)
(* C17: in query_section the identifier extracted from the query becomes   *)
(* the effective target only when target_section was not supplied; when    *)
(* the caller supplies target_section, that value is the effective target  *)
(* even if the query also contains an identifier.                          *)
(***************************************************************************)
C17_SuppliedTargetIsEffective ==
    (rPc = "done" /\ rCall = "query_section" /\ doc.chunks # <<>>) =>
        IF Truthy(rTarget)
        THEN /\ rResult.target = rTarget
             /\ rResult.section_indices = SectionIndices(doc.metadata, rTarget)
        ELSE rResult.target = extract_problem_statement_num_from_query(rPrompt)

\* what holds of the code: the identifier of the query is the effective
\* target whenever there is one, and target_section only when there is none
C17_ExtractedIdIsEffective ==
    (rPc = "done" /\ rCall = "query_section" /\ doc.chunks # <<>>) =>
        /\ rResult.target = EffectiveTarget
        /\ Truthy(EffectiveTarget) =>
              rResult.section_indices = SectionIndices(doc.metadata, EffectiveTarget)

(***************************************************************************)
(* C18: the text returned with an answer is "From {section}: {answer}",    *)
(* {section} being the section title of the chunk selected as context,     *)
(* exactly when a target was in effect for the search, and the bare answer *)
(* exactly when no target was in effect.                                   *)
(***************************************************************************)
C18_PrefixExactlyWhenTargeted ==
    (rPc = "done" /\ rResult.outcome = "returned" /\ rResult.qaCalls = 1) =>
        /\ rResult.best \in 1..Len(doc.chunks)
        /\ IF rCall = "query_section" /\ Truthy(EffectiveTarget)
           THEN rResult.value = strFrom \o doc.metadata[rResult.best].section
                                    \o strColonSp \o rCollab.answer
           ELSE rResult.value = rCollab.answer

\* a target supplied by the caller, with a query that names none, and the
\* answer taken from the second section of the document
C18_Witness ==
    /\ rPc = "done" /\ rCall = "query_section"
    /\ rPrompt = promptPlain /\ rTarget = <<"2">>
    /\ rResult.outcome = "returned" /\ rResult.best = 2
    /\ rResult.value = strFrom \o strTitlePs2 \o strColonSp \o rCollab.answer

(***************************************************************************)
(* C19: once a target was resolved to a non-empty candidate set, the query *)
(* used for scoring and question answering has its section/id phrase       *)
(* removed: "problem statement 2: what is X" is scored as "what is X", and *)
(* the removed phrase covers every identifier form that the extraction     *)
(* accepts, so that no identifier is left in the query that is scored.     *)
(***************************************************************************)
strWhatIsX == <<"w", "h", "a", "t", " ", "i", "s", " ", "X">>

strColonWhatIsX == <<":", " ", "w", "h", "a", "t", " ", "i", "s", " ", "X">>

strWhatIsRequiredIn == <<"W", "h", "a", "t", " ", "i", "s", " ", "r", "e", "q", "u", "i", "r", "e", "d", " ", "i", "n", " ", "?">>

C19_IdPhraseRemoved ==
    (TargetedCall /\ rResult.encodeCalls = 1) =>
        /\ rPrompt = promptLeading => rResult.question = strWhatIsX
        /\ extract_problem_statement_num_from_query(rResult.question) = None

\* what holds of the code: "problem statement <digits>" and "ps <digits>"
\* are removed and nothing else; the punctuation after the phrase stays
C19_OnlyDigitPhrasesRemoved ==
    (TargetedCall /\ rResult.encodeCalls = 1) =>
        /\ rPrompt = promptLeading => rResult.question = strColonWhatIsX
        /\ rPrompt = promptRequired => rResult.question = strWhatIsRequiredIn
        /\ rPrompt \in {promptProblemN, promptPlain} => rResult.question = rPrompt

(***************************************************************************)
(* C20: summarize_document selects its strategy from the word count W of   *)
(* the cleaned text: 50 <= W < 100 returns the cleaned text with no        *)
(* summarizer call; 100 <= W <= 800 makes exactly one call on the full     *)
(* text bounded to min(max_length, 150); 800 < W <= 3000 makes exactly one *)
(* call on the first 400 plus the last 400 words with bound 150; and in    *)
(* both tiers a failed call yields the key-sentence selection over the     *)
(* full text.                                                              *)
(***************************************************************************)
FirstAndLast400(words) ==
    JoinWords(SubSeq(words, 1, 400) \o SubSeq(words, Len(words) - 399, Len(words)))

TierOfCleaned(cleaned, words) ==
    /\ (Len(words) >= 50 /\ Len(words) < 100) =>
          /\ sumResult = Returned(cleaned)
          /\ sumCalls = <<>>
    /\ (Len(words) >= 100 /\ Len(words) <= 800) =>
          /\ sumCalls = <<Call(cleaned, Min(sumMaxLength, 150))>>
          /\ sumResult = IF sumCollab.s1 = "summary" THEN Returned(SummaryText)
                         ELSE extract_key_sentences(cleaned, 3, sumCollab.tokenizer)
    /\ (Len(words) > 800 /\ Len(words) <= 3000) =>
          /\ sumCalls = <<Call(clean_text_for_summarization(FirstAndLast400(words)), 150)>>
          /\ sumResult = IF sumCollab.s1 = "summary" THEN Returned(SummaryText)
                         ELSE Prefixed(strKeyPoints,
                                       extract_key_sentences(cleaned, 5, sumCollab.tokenizer))

C20_TierBoundaries ==
    sumPc = "done" =>
        TierOfCleaned(clean_text_for_summarization(sumText),
                      Words(clean_text_for_summarization(sumText)))

\* 801 words and a summarizer that raises: one call with bound 150 on the
\* 800 selected words, then the key sentences of the whole text
C20_Witness ==
    /\ sumPc = "done"
    /\ Len(Words(sumText)) = 801
    /\ sumCollab.s1 = "raises"
    /\ Len(sumCalls) = 1 /\ sumCalls[1].max_length = 150
    /\ Len(Words(sumCalls[1].input)) = 800
    /\ sumResult.outcome = "returned"
    /\ SubSeq(sumResult.value, 1, Len(strKeyPoints)) = strKeyPoints

(***************************************************************************)
(* C21: above 3000 words summarize_document summarizes the head, middle    *)
(* and tail 800-word windows independently and returns the three results   *)
(* joined in that order; a window whose summarizer call fails contributes  *)
(* its own 2-sentence extraction; and if all three calls fail, the         *)
(* returned text is the key-sentence selection over the whole text rather  *)
(* than the three per-window extractions.                                  *)
(***************************************************************************)
\* what a window contributes when a failed call falls back to its extraction
WindowPartOrExtract(window, outcome) ==
    IF outcome = "summary" THEN SummaryText
    ELSE extract_key_sentences(window, 2, sumCollab.tokenizer).value

JoinThree(a, b, c) == TokStrip(Concat(Concat(Concat(Concat(a, <<SP>>), b), <<SP>>), c))

WholeTextSelections(cleaned) ==
    {extract_key_sentences(cleaned, 5, sumCollab.tokenizer).value,
     Concat(strKeyPoints, extract_key_sentences(cleaned, 5, sumCollab.tokenizer).value),
     Concat(strDocumentOverview, extract_key_sentences(cleaned, 5, sumCollab.tokenizer).value)}

SectionalAsClaimed(cleaned, words) ==
    IF "summary" \notin {sumCollab.s1, sumCollab.s2, sumCollab.s3}
    THEN sumResult.outcome = "returned" /\ sumResult.value \in WholeTextSelections(cleaned)
    ELSE sumResult = Returned(JoinThree(WindowPartOrExtract(BeginWindow(words), sumCollab.s1),
                                        WindowPartOrExtract(MiddleWindow(words), sumCollab.s2),
                                        WindowPartOrExtract(EndWindow(words), sumCollab.s3)))

C21_SectionalFallbacks ==
    (sumPc = "done" /\ Len(Words(sumText)) > 3000) =>
        SectionalAsClaimed(clean_text_for_summarization(sumText),
                           Words(clean_text_for_summarization(sumText)))

\* what holds of the code: a call that raises contributes the extraction of
\* its window, a call that returns an empty list contributes nothing; the
\* selection over the whole text is returned only when the three parts are
\* all empty, so three raising calls give the three window extractions
WindowPart(window, outcome) ==
    IF outcome = "summary" THEN SummaryText
    ELSE IF outcome = "empty" THEN <<>>
    ELSE extract_key_sentences(window, 2, sumCollab.tokenizer).value

SectionalAsCoded(cleaned, joined) ==
    IF joined # <<>> THEN sumResult = Returned(joined)
    ELSE sumResult = Returned(Concat(strKeyPoints,
                         extract_key_sentences(cleaned, 5, sumCollab.tokenizer).value))

SectionalOfWords(cleaned, words) ==
    SectionalAsCoded(cleaned,
        JoinThree(WindowPart(BeginWindow(words), sumCollab.s1),
                  WindowPart(MiddleWindow(words), sumCollab.s2),
                  WindowPart(EndWindow(words), sumCollab.s3)))

C21_SectionalPartsByOutcome ==
    (sumPc = "done" /\ Len(Words(sumText)) > 3000) =>
        /\ SectionalOfWords(clean_text_for_summarization(sumText),
                            Words(clean_text_for_summarization(sumText)))
        /\ Len(sumCalls) = 3
        /\ \A k \in 1..3 : sumCalls[k].max_length = 100

(***************************************************************************)
(* Query-aware validation claims.  BasicValidation is the result of        *)
(* validate_summary on the retrieved text, in a call that reaches it.      *)
(***************************************************************************)
BasicValidation ==
    validate_summary(vqSummary,
                     RelevantText(vqChunks, TopIndices(ArgSort(Len(vqChunks), vqCollab.order))),
                     vqThreshold, vqCollab.inner)

QueryValidationCompleted == vqPc = "done" /\ "query_relevance" \in DOMAIN vqResult

strIrrelevant == "Summary doesn't specifically address the query."

strUngrounded == "Summary contains information not supported by the document."

strValidAndSupported == "Summary is valid and supported by the document."

(***************************************************************************)
(* C23: validate_query_summary returns valid = (base validity of the       *)
(* summary against the retrieved source) AND (query_relevance >            *)
(* threshold), and its message distinguishes the two failure causes: the   *)
(* irrelevance message when the relevance test fails, the ungroundedness   *)
(* message when only the base validity fails.                              *)
(***************************************************************************)
C23_ValidAndMessageByCause ==
    QueryValidationCompleted =>
        /\ vqResult.valid = (BasicValidation.valid /\ vqResult.query_relevance > vqThreshold)
        /\ ~(vqResult.query_relevance > vqThreshold) => vqResult.message = strIrrelevant
        /\ (vqResult.query_relevance > vqThreshold /\ ~BasicValidation.valid)
              => vqResult.message = strUngrounded

\* what holds of the code: the irrelevance message is chosen by
\* query_relevance < threshold, so a relevance equal to the threshold fails
\* the relevance test and keeps the message of the base validity
C23_MessageByStrictlyLower ==
    QueryValidationCompleted =>
        /\ vqResult.query_relevance = vqCollab.relevance
        /\ vqResult.valid = (BasicValidation.valid /\ vqResult.query_relevance > vqThreshold)
        /\ vqResult.message =
              IF vqResult.query_relevance < vqThreshold THEN strIrrelevant
              ELSE IF ~BasicValidation.valid THEN strUngrounded
              ELSE strValidAndSupported

(***************************************************************************)
(* C26: in a result of validate_query_summary the message says the summary *)
(* is valid and supported only if valid is true: whenever valid is false   *)
(* (including when query_relevance equals the threshold exactly) the       *)
(* message is one of the failure messages.                                 *)
(***************************************************************************)
C26_ValidMessageOnlyIfValid ==
    (vqPc = "done" /\ vqResult.message = strValidAndSupported) => vqResult.valid

\* what holds of the code: the message of a result that is not valid is a
\* failure message except when query_relevance equals the threshold and the
\* base validity holds
C26_ValidMessageUnlessAtThreshold ==
    (vqPc = "done" /\ vqResult.message = strValidAndSupported /\ ~vqResult.valid) =>
        /\ QueryValidationCompleted
        /\ vqResult.query_relevance = vqThreshold
        /\ BasicValidation.valid

(***************************************************************************)
(* C24: when no heading is found, detect_sections falls back to splitting  *)
(* the text on blank-line-delimited paragraphs and returns one             *)
(* "Section {i}" entry for each paragraph longer than 100 characters; the  *)
(* single whole-document section is returned only when that paragraph      *)
(* split yields nothing usable.                                            *)
(***************************************************************************)
\* re.split(r'\n\s*\n', text): a separator runs from the first to the last
\* newline of a whitespace run that holds two newlines or more
SameWhitespaceRun(s, i, k) == \A m \in i..k : IsSpace(s[m])

SeparatorStarts(s) ==
    SelectSeq([i \in 1..Len(s) |-> i],
              LAMBDA i : /\ s[i] = "\n"
                         /\ \E k \in (i + 1)..Len(s) : s[k] = "\n" /\ SameWhitespaceRun(s, i, k)
                         /\ ~\E k \in 1..(i - 1) : s[k] = "\n" /\ SameWhitespaceRun(s, k, i))

SeparatorEnd(s, i) ==
    CHOOSE k \in (i + 1)..Len(s) :
        /\ s[k] = "\n" /\ SameWhitespaceRun(s, i, k)
        /\ ~\E j \in (k + 1)..Len(s) : s[j] = "\n" /\ SameWhitespaceRun(s, k, j)

ParagraphsAt(s, starts) ==
    [n \in 1..(Len(starts) + 1) |->
        SubSeq(s, IF n = 1 THEN 1 ELSE SeparatorEnd(s, starts[n - 1]) + 1,
                  IF n = Len(starts) + 1 THEN Len(s) ELSE starts[n] - 1)]

Paragraphs(s) == ParagraphsAt(s, SeparatorStarts(s))

UsableParagraphs(paragraphs) ==
    SelectSeq([i \in 1..Len(paragraphs) |-> i],
              LAMBDA i : Len(Strip(paragraphs[i])) > 100)

strSectionCap == <<"S", "e", "c", "t", "i", "o", "n", " ">>

DecimalDigit(i) == <<"0", "1", "2", "3", "4", "5", "6", "7", "8", "9">>[i + 1]

ParagraphSections(paragraphs, usable) ==
    /\ Len(sections) = Len(usable)
    /\ \A k \in 1..Len(usable) :
          /\ sections[k].title = strSectionCap \o <<DecimalDigit(usable[k])>>
          /\ sections[k].content = paragraphs[usable[k]]

NoHeading == \A i \in 0..Len(secText) : CombinedAlt(secText, i) = 0

C24_ParagraphFallback ==
    (secPc = "returned" /\ NoHeading) =>
        IF UsableParagraphs(Paragraphs(secText)) # <<>>
        THEN ParagraphSections(Paragraphs(secText), UsableParagraphs(Paragraphs(secText)))
        ELSE Len(sections) = 1 /\ sections[1].title = strDocument

\* what holds of the code: without a heading the text is one "Document"
\* section, whatever its paragraphs are
C24_NoHeadingNoParagraphSplit ==
    (secPc = "returned" /\ NoHeading /\ UsableParagraphs(Paragraphs(secText)) # <<>>) =>
        /\ Len(sections) = 1
        /\ sections[1].title = strDocument
        /\ sections[1].content = secText

(***************************************************************************)
(* Key-sentence claims.  KsSentences is the sentence list of the call.     *)
(***************************************************************************)
KsSentences == KeySentencesSource(ksText, ksTokenizer)

SentencesAt(indices) == JoinTexts([k \in 1..Len(indices) |-> KsSentences[indices[k]]])

CeilHalf(n) == (n + 1) \div 2

(***************************************************************************)
(* C22: extract_key_sentences(text, n): when the sentence count is at most *)
(* n, all sentences are returned joined in order; otherwise the result is  *)
(* the first ceil(n/2) sentences, then the one sentence at index           *)
(* floor(count/2), then the last floor(n/2)+1 sentences, in that order.    *)
(***************************************************************************)
C22_FirstCeilHalfMiddleLast ==
    ksPc = "done" =>
        ksResult = Returned(
            IF Len(KsSentences) <= ksNum
            THEN JoinTexts(KsSentences)
            ELSE JoinTexts(SubSeq(KsSentences, 1, CeilHalf(ksNum))
                           \o <<KsSentences[Len(KsSentences) \div 2 + 1]>>
                           \o SubSeq(KsSentences, Len(KsSentences) - ksNum \div 2,
                                     Len(KsSentences))))

\* what holds of the code: the first max(1, floor(n/2)) sentences are
\* taken, and a text without any sentence gives text[:1000] + "..."
C22_FirstFloorHalfMiddleLast ==
    ksPc = "done" =>
        /\ ksResult = Returned(IF KsSentences = <<>> THEN Concat(ksText, strEllipsis)
                               ELSE SentencesAt(ksSelected))
        /\ Len(KsSentences) <= ksNum => ksSelected = [k \in 1..Len(KsSentences) |-> k]
        /\ Len(KsSentences) > ksNum =>
              ksSelected = [k \in 1..Max(1, ksNum \div 2) |-> k]
                           \o <<Len(KsSentences) \div 2 + 1>>
                           \o [k \in 1..(ksNum \div 2 + 1) |->
                                  Len(KsSentences) - (ksNum \div 2 + 1) + k]

(***************************************************************************)
(* C28: extract_key_sentences never selects the same source sentence       *)
(* twice: for every sentence list and every num_sentences >= 1 the extract *)
(* is a subsequence (strictly increasing indices) of the source sentences, *)
(* so it is never longer than the source text.                             *)
(***************************************************************************)
C28_SelectionStrictlyIncreasing ==
    ksPc = "done" =>
        /\ \A k \in 1..(Len(ksSelected) - 1) : ksSelected[k] < ksSelected[k + 1]
        /\ KsSentences # <<>> => CharLen(ksResult.value) <= CharLen(ksText)

\* what holds of the code: the indices never decrease, and an index is
\* repeated only at the joints of the three parts
C28_SelectionNonDecreasing ==
    ksPc = "done" =>
        /\ \A k \in 1..(Len(ksSelected) - 1) : ksSelected[k] <= ksSelected[k + 1]
        /\ \A k \in 1..(Len(ksSelected) - 1) :
              ksSelected[k] = ksSelected[k + 1] =>
                  /\ Len(KsSentences) > ksNum
                  /\ ksSelected[k] = Len(KsSentences) \div 2 + 1

(***************************************************************************)
(* C27: section matching in query_section is case-insensitive in the       *)
(* supplied target: when the query holds no identifier and target_section  *)
(* is a section's own title in its original casing ("Problem Statement     *)
(* 2"), the chunks of that section are matched and the search does not end *)
(* with the "could not find" result.                                       *)
(***************************************************************************)
ChunksOfSection(title) == {i \in 1..Len(doc.metadata) : doc.metadata[i].section = title}

SuppliedTargetCall ==
    /\ rPc = "done" /\ rCall = "query_section"
    /\ doc.chunks # <<>>
    /\ extract_problem_statement_num_from_query(rPrompt) = None
    /\ Truthy(rTarget)

C27_OwnTitleMatchesItsSection ==
    (SuppliedTargetCall /\ ChunksOfSection(rTarget) # {}) =>
        /\ ChunksOfSection(rTarget) \subseteq Range(rResult.section_indices)
        /\ rResult.value # CouldNotFindMessage

\* what holds of the code: the titles are lowered and the target is not, so
\* a target with an upper-case letter matches no chunk, and a title in
\* lower case matches the chunks of its section
C27_TargetComparedAsGiven ==
    SuppliedTargetCall =>
        /\ rTarget # Lower(rTarget) =>
              /\ rResult.section_indices = <<>>
              /\ rResult.value = CouldNotFindMessage
        /\ rTarget = Lower(rTarget) =>
              {i \in 1..Len(doc.metadata) : Lower(doc.metadata[i].section) = rTarget}
                  \subseteq Range(rResult.section_indices)

(***************************************************************************)
(* C25: starting from an empty store, after any sequence of add_document,  *)
(* set_active_document and remove_document calls, active_document_id is    *)
(* None exactly when the store holds no documents and otherwise is the id  *)
(* of a document in the store; set_active_document and remove_document on  *)
(* an id that is not in the store return False and change neither the      *)
(* documents nor the active id.                                            *)
(***************************************************************************)
C25_ActiveIdInStore ==
    /\ (active_document_id = None) <=> (documents = <<>>)
    /\ active_document_id # None => InStore(documents, active_document_id)
    /\ (/\ storeOp \in {"set_active_document", "remove_document"}
        /\ ~InStore(prevDocuments, storeArg)) =>
           /\ storeReturn = "False"
           /\ documents = prevDocuments
           /\ active_document_id = prevActive

\* the active document was removed while others remain: the first of them
\* is active
C25_Witness ==
    /\ storeOp = "remove_document" /\ storeReturn = "True"
    /\ prevActive = storeArg
    /\ Len(documents) = 2
    /\ active_document_id = documents[1]

(***************************************************************************)
(* Generation job claims.  A job is terminal when its status is completed  *)
(* or failed; what a client observes of a job is the last response of      *)
(* check_status for it.                                                    *)
(***************************************************************************)
Terminal(job_id) ==
    job_id \in DOMAIN job_status /\ job_status[job_id].status \in {"completed", "failed"}

\* the last response of check_status shows a job
ObservedJob == statusResponse.code = 200 /\ statusResponse.job_id \in JobIds

\* C29: a job enters the table as "processing"; once entered, its task
\* brings it to "completed" or "failed"; a terminal job never changes again;
\* download_file serves a file only for a completed job, the file at its
\* file_path; and every completed job has a file_path.
C29_JobLifecycle ==
    /\ [][\A j \in JobIds :
            j \notin DOMAIN job_status /\ j \in DOMAIN job_status'
                => job_status'[j] = NewJob]_vars
    /\ \A j \in JobIds : (j \in DOMAIN job_status) ~> Terminal(j)
    /\ [][\A j \in JobIds : Terminal(j) => job_status'[j] = job_status[j]]_vars
    /\ [](downloadResponse.code = 200 =>
            /\ job_status[downloadResponse.job_id].status = "completed"
            /\ downloadResponse.body.file = job_status[downloadResponse.job_id].file_path)
    /\ [](\A j \in DOMAIN job_status :
            job_status[j].status = "completed" => "file_path" \in DOMAIN job_status[j])

\* a completed job whose package was served, after a client saw it in progress
C29_Witness ==
    /\ downloadResponse.code = 200
    /\ job_status[downloadResponse.job_id].status = "completed"
    /\ ObservedJob /\ statusResponse.body.status = "packaging files"

\* C30: every progress a client observes lies between 0 and 100, the
\* progress observed of a job that has not failed is never below the one
\* observed before, and it is 100 exactly when the status is "completed".
C30_ProgressBoundedMonotone ==
    /\ [](ObservedJob =>
            /\ FracLeq(Frac(0, 1), statusResponse.body.progress)
            /\ FracLeq(statusResponse.body.progress, Frac(100, 1)))
    /\ [][ObservedJob /\ ObservedJob' /\ statusResponse'.body.status # "failed"
            => FracLeq(statusResponse.body.progress, statusResponse'.body.progress)]_vars
    /\ [](ObservedJob =>
            (FracEq(statusResponse.body.progress, Frac(100, 1))
                <=> statusResponse.body.status = "completed"))

\* C30, what holds: an observed progress is never negative, and it is 100
\* exactly when the status is "completed"
C30_HundredExactlyWhenCompleted ==
    ObservedJob =>
        /\ FracLeq(Frac(0, 1), statusResponse.body.progress)
        /\ (FracEq(statusResponse.body.progress, Frac(100, 1))
                <=> statusResponse.body.status = "completed")

\* the number of stages a job enters
StagesEntered(t) ==
    Cardinality({k \in DOMAIN Stages : StageRequested(Stages[k], t.requested_types, t.language)})

\* C30, what holds: while a job enters no more stages than it has requested
\* types, its progress is at most 100 and no write lowers it unless the job fails
C30_BoundedMonotoneWithinRequested ==
    [][\A j \in DOMAIN job_status :
            (task[j].pc # "start" /\ StagesEntered(task[j]) <= Len(task[j].requested_types)
                /\ job_status'[j].status # "failed")
            => /\ FracLeq(job_status[j].progress, job_status'[j].progress)
               /\ FracLeq(job_status'[j].progress, Frac(100, 1))]_vars

=============================================================================
